---- MODULE Spec2Model ----
(***************************************************************************)
(* libarchive's archive_string.c: growable byte / wide-character buffers,  *)
(* the per-archive registry of string conversion objects, the conversion   *)
(* routines and the multi-representation string (archive_mstring).         *)
(*                                                                         *)
(* Build modelled: a POSIX build (not _WIN32, not __APPLE__) whose wchar_t *)
(* is Unicode (__STDC_ISO_10646__), with HAVE_MBSNRTOWCS, HAVE_WCSNRTOMBS  *)
(* and HAVE_NL_LANGINFO; HAVE_ICONV is a build choice fixed in Init.       *)
(* Bytes are the integers 0..255, wide characters are code points.         *)
(***************************************************************************)
EXTENDS Integers, Sequences, FiniteSets, TLC

VARIABLES
    have_iconv,   \* build: HAVE_ICONV
    codeset,      \* host: nl_langinfo(CODESET), the charset of the locale
    a,            \* struct archive: sconv list, current_code, last error
    heap,         \* every archive_string_conv ever allocated, by address
    aes,          \* struct archive_mstring
    last,         \* the call made by the last step and what it returned
    nops,         \* calls made so far on the multistring
    sbuf,         \* a struct archive_string used directly by a caller
    wbuf,         \* a struct archive_wstring used directly by a caller
    call          \* the archive_strncat_in_locale in progress: its loop and locals

vars == <<have_iconv, codeset, a, heap, aes, last, nops, sbuf, wbuf, call>>

(***************************************************************************)
(* Bounds of the model.                                                    *)
(***************************************************************************)
\* conversion objects that may be allocated in one run
MaxObjs == 2

\* calls made on the multistring in one run
MaxOps == 3

(***************************************************************************)
(* Small helpers.                                                          *)
(***************************************************************************)
Min(x, y) == IF x < y THEN x ELSE y

Max(x, y) == IF x < y THEN y ELSE x

Take(s, n) == SubSeq(s, 1, Min(n, Len(s)))

Drop(s, n) == SubSeq(s, n + 1, Len(s))

Rep(v, n) == [i \in 1..n |-> v]

\* a local variable assigned once: With([v \in {e} |-> body]) is body with v
\* holding the value of e
With(f) == CHOOSE y \in UNION {{g[v] : v \in DOMAIN g} : g \in {f}} : TRUE

(***************************************************************************)
(* Growable buffers: struct archive_string / struct archive_wstring.       *)
(* A buffer is [alloc, s, length, buffer_length]: alloc is "s != NULL", s  *)
(* the cells of the allocation written so far (a cell never written holds  *)
(* Uninit), buffer_length the allocated size in bytes.                     *)
(***************************************************************************)
\* the content of a cell of realloc'ed memory that was never written
Uninit == -1

\* sizeof(wchar_t) of the build
SizeofWchar == 4

\* the width of size_t in bits: its arithmetic is modulo 2^SizeBits
SizeBits == 28

\* a value converted to size_t
SizeT(n) == n % (2 ^ SizeBits)

\* archive_string_init: the zeroed structure
archive_string_init == [alloc |-> FALSE, s |-> <<>>, length |-> 0, buffer_length |-> 0]

\* p[i] (i counted from 0) of memory whose written cells are mem
Cell(mem, i) == IF i >= 0 /\ i < Len(mem) THEN mem[i + 1] ELSE Uninit

\* memory mem after storing the cells of data at offset off
Poke(mem, off, data) ==
    LET pre  == IF off <= Len(mem) THEN SubSeq(mem, 1, off)
                ELSE mem \o Rep(Uninit, off - Len(mem))
        post == SubSeq(mem, off + Len(data) + 1, Len(mem))
    IN pre \o data \o post

\* the string a caller reads through the pointer as->s: the cells before the
\* first zero; a read that runs into memory never written shows as Uninit
RECURSIVE CStr(_)
CStr(mem) ==
    IF mem = <<>> THEN <<Uninit>>
    ELSE IF Head(mem) = 0 THEN <<>>
    ELSE <<Head(mem)>> \o CStr(Tail(mem))

\* archive_string_free / archive_wstring_free
archive_string_free(as) == archive_string_init

\* archive_string_empty / archive_wstring_empty (macro): length = 0, nothing else
archive_string_empty(as) == [as EXCEPT !.length = 0]

\* a growth by a fixed 32 bytes once the buffer holds 32
GrownLength_by_32(buffer_length) ==
    IF buffer_length < 32 THEN 32 ELSE SizeT(buffer_length + 32)

\* the lower limit of growth computed by archive_string_ensure
GrownLength(buffer_length) ==
    IF buffer_length < 32 THEN 32
    ELSE IF buffer_length < 8192 THEN SizeT(buffer_length + buffer_length)
    ELSE SizeT(buffer_length + buffer_length \div 4)

\* archive_string_ensure(as, s), realloc succeeding: the buffer afterwards;
\* the function returns NULL exactly when it has freed the buffer ("If size
\* wraps, fail"), which leaves s == NULL
archive_string_ensure(as, s) ==
    IF as.alloc /\ s <= as.buffer_length THEN as
    ELSE IF as.buffer_length >= 8192 /\ GrownLength(as.buffer_length) < as.buffer_length
    THEN archive_string_free(as)
    ELSE [as EXCEPT !.alloc = TRUE,
                    !.buffer_length = Max(GrownLength(as.buffer_length), s)]

\* archive_wstring_ensure(as, s): the element count is converted to bytes
archive_wstring_ensure(as, s) == archive_string_ensure(as, SizeT(s * SizeofWchar))

\* A source pointer: [alias, off, bytes]. alias = TRUE is a pointer into the
\* destination's own allocation at offset off; otherwise bytes are the cells
\* of the caller's array.
Ptr(bytes) == [alias |-> FALSE, off |-> 0, bytes |-> bytes]

AliasPtr(off) == [alias |-> TRUE, off |-> off, bytes |-> <<>>]

\* p[i] read while the destination's memory is mem
Rd(p, mem, i) == IF p.alias THEN Cell(mem, p.off + i) ELSE Cell(p.bytes, i)

\* the cells p[0..n-1] read while the destination's memory is mem
RdN(p, mem, n) == [i \in 1..n |-> Rd(p, mem, i - 1)]

\* an append that copies the cells and leaves out the terminating zero
AppendCells_unterminated(as, ensured, data) ==
    [ensured EXCEPT !.s = Poke(ensured.s, as.length, data),
                    !.length = as.length + Len(data)]

\* archive_string_append(as, p, s) with the cells to copy already read
AppendCells(as, ensured, data) ==
    [ensured EXCEPT !.s = Poke(ensured.s, as.length, data \o <<0>>),
                    !.length = as.length + Len(data)]

\* archive_string_append(as, p, s)
archive_string_append(as, p, s) ==
    With([e \in {archive_string_ensure(as, as.length + s + 1)} |->
        AppendCells(as, e, RdN(p, e.s, s))])

\* archive_wstring_append(as, p, s)
archive_wstring_append(as, p, s) ==
    With([e \in {archive_wstring_ensure(as, as.length + s + 1)} |->
        AppendCells(as, e, RdN(p, e.s, s))])

\* a scan that tests p[s] before it tests s against n
RECURSIVE StrnlenFrom_reading_first(_, _, _, _)
StrnlenFrom_reading_first(p, mem, n, s) ==
    IF Rd(p, mem, s) # 0 /\ s <= n
    THEN StrnlenFrom_reading_first(p, mem, n, s + 1) ELSE s

\* "Like strlen(p), except won't examine positions beyond p[n]"
RECURSIVE StrnlenFrom(_, _, _, _)
StrnlenFrom(p, mem, n, s) ==
    IF s < n /\ Rd(p, mem, s) # 0 THEN StrnlenFrom(p, mem, n, s + 1) ELSE s

\* la_strnlen(p, n)
la_strnlen(p, mem, n) == StrnlenFrom(p, mem, n, 0)

\* archive_strncat(as, p, n)
archive_strncat(as, p, n) == archive_string_append(as, p, StrnlenFrom(p, as.s, n, 0))

\* archive_wstrncat(as, p, n)
archive_wstrncat(as, p, n) == archive_wstring_append(as, p, StrnlenFrom(p, as.s, n, 0))

\* archive_strncpy (macro): length = 0, then archive_strncat
archive_strncpy(as, p, n) == archive_strncat(archive_string_empty(as), p, n)

\* archive_wstrncpy (macro)
archive_wstrncpy(as, p, n) == archive_wstrncat(archive_string_empty(as), p, n)

\* the limit archive_strcat / archive_strcpy pass to archive_strncat
StrcatLimit == 16777216

\* archive_strcpy (macro): archive_strncpy without an effective limit
archive_strcpy(as, p) == archive_strncpy(as, p, StrcatLimit)

\* archive_strcat(as, p)
archive_strcat(as, p) == archive_strncat(as, p, StrcatLimit)

\* archive_strappend_char(as, c): the source is the one-element object c
archive_strappend_char(as, c) == archive_string_append(as, Ptr(<<c>>), 1)

\* archive_string_concat(dest, src)
archive_string_concat(dest, src) == archive_string_append(dest, Ptr(src.s), src.length)

\* the text held by a form: its first length cells
Text(as) == Take(as.s, as.length)

(***************************************************************************)
(* Conversion objects (struct archive_string_conv) and their registry.     *)
(* heap[sc] is the object at address sc; address 0 is NULL.  An object     *)
(* that was returned to a caller stays in heap after free_sconv_object,    *)
(* with its count of free() calls, so that a use or a second release of it *)
(* is visible.  req_fc records the from-charset name the creating request  *)
(* passed (the object's own from_charset may be a rewritten name).         *)
(***************************************************************************)
\* the charset names callers pass
Charsets == {"UTF-8", "X-UNKNOWN", "UTF-8-MADE_BY_LIBARCHIVE2"}

\* the values nl_langinfo(CODESET) may have
Codesets == {"UTF-8", "ISO-8859-1"}

\* the names the host's iconv_open knows
IconvNames == {"UTF-8", "ISO-8859-1", "CP1252", "GB18030", "UTF-16BE"}

\* the values nl_langinfo(CODESET) may have where a multistring is used: also
\* that of a zh_CN.GB18030 locale, some of whose characters take more bytes
\* than they do in UTF-8
LocaleCodesets == Codesets \cup {"GB18030"}

NULL == 0

\* get_current_codepage / make_codepage_from_charset / get_current_oemcp of a
\* POSIX build: (unsigned)-1
get_current_codepage == "unknown"

make_codepage_from_charset(charset) == "unknown"

\* iconv_open(tc, fc): "open", or "-1" when the host lacks either name
iconv_open(tc, fc) == IF tc \in IconvNames /\ fc \in IconvNames THEN "open" ELSE "-1"

\* find_sconv_object(a, fc, tc): the first object of a->sconv with both names
\* equal, NULL if there is none
RECURSIVE FindFrom(_, _, _, _)
FindFrom(H, list, fc, tc) ==
    IF list = <<>> THEN NULL
    ELSE IF H[Head(list)].from_charset = fc /\ H[Head(list)].to_charset = tc
         THEN Head(list)
         ELSE FindFrom(H, Tail(list), fc, tc)

find_sconv_object(A, H, isnull, fc, tc) ==
    IF isnull THEN NULL ELSE FindFrom(H, A.sconv, fc, tc)

\* add_sconv_object(a, sc): appended at the end of the list
add_sconv_object(A, sc) == [A EXCEPT !.sconv = Append(A.sconv, sc)]

\* the flag bits create_sconv_object adds for the direction of the request
DirectionFlags(fc, tc, flag) ==
    IF "SCONV_TO_CHARSET" \in flag
    THEN (IF tc = "UTF-16BE" THEN {"SCONV_UTF16BE"} ELSE {})
    ELSE IF "SCONV_FROM_CHARSET" \in flag
    THEN (IF fc = "UTF-8" THEN {"SCONV_NORMALIZATION_C"}
          ELSE IF fc = "UTF-16BE" THEN {"SCONV_UTF16BE"} ELSE {})
    ELSE {}

\* create_sconv_object(fc, tc, current_codepage, flag), allocation succeeding
create_sconv_object(fc0, tc, current_codepage, flag0, iconv) ==
    LET fc      == IF fc0 = "UTF-8-MADE_BY_LIBARCHIVE2" THEN "UTF-8" ELSE fc0
        to      == "SCONV_TO_CHARSET" \in flag0
        from    == ~to /\ "SCONV_FROM_CHARSET" \in flag0
        from_cp == IF to THEN current_codepage
                   ELSE IF from THEN make_codepage_from_charset(fc) ELSE "0"
        to_cp   == IF to THEN make_codepage_from_charset(tc)
                   ELSE IF from THEN current_codepage ELSE "0"
        same    == fc = tc \/ (from_cp # "unknown" /\ from_cp = to_cp)
        flag1   == flag0 \cup DirectionFlags(fc, tc, flag0)
                     \cup (IF tc = "UTF-8" THEN {"SCONV_TO_UTF8"} ELSE {})
                     \cup (IF same /\ fc = "UTF-8"
                           THEN {"SCONV_COPY_UTF8_TO_UTF8"} ELSE {})
        cd      == IF ~iconv THEN "none"
                   ELSE IF "SCONV_COPY_UTF8_TO_UTF8" \in flag1 THEN "-1"
                   ELSE iconv_open(tc, fc)
    IN [from_charset |-> fc, to_charset |-> tc,
        from_cp |-> from_cp, to_cp |-> to_cp,
        same |-> same, flag |-> flag1, cd |-> cd,
        utf8 |-> archive_string_init, freed |-> 0, closed |-> 0, req_fc |-> fc0]

\* free_sconv_object(sc)
free_sconv_object(H, sc) ==
    [H EXCEPT ![sc].utf8 = archive_string_free(@),
              ![sc].closed = IF H[sc].cd = "open" THEN @ + 1 ELSE @,
              ![sc].freed = @ + 1]

\* archive_set_error(a, error_number, ...)
archive_set_error(A, isnull, error_number) ==
    IF isnull THEN A ELSE [A EXCEPT !.archive_error_number = error_number]

\* get_sconv_object's test, after creation, that the object cannot serve
\* the request
Unsupported(obj, flag, iconv) ==
    IF iconv
    THEN obj.cd = "-1" /\
         obj.flag \cap {"SCONV_BEST_EFFORT", "SCONV_COPY_UTF8_TO_UTF8"} = {}
    ELSE ~obj.same /\ "SCONV_BEST_EFFORT" \notin flag

\* get_sconv_object(a, fc, tc, flag): [a, heap, sc]; isnull is "a == NULL",
\* oom is whether create_sconv_object's allocation fails
get_sconv_object(A, H, isnull, fc, tc, flag, iconv, oom) ==
    With([found \in {find_sconv_object(A, H, isnull, fc, tc)} |->
        IF found # NULL THEN [a |-> A, heap |-> H, sc |-> found]
        ELSE IF oom
        THEN [a |-> archive_set_error(A, isnull, "ENOMEM"), heap |-> H, sc |-> NULL]
        ELSE
        With([obj \in {create_sconv_object(fc, tc,
                           IF isnull THEN get_current_codepage ELSE A.current_codepage,
                           flag, iconv)} |->
        With([sc \in {Len(H) + 1} |->
            IF Unsupported(obj, flag, iconv)
            THEN [a |-> archive_set_error(A, isnull, "ARCHIVE_ERRNO_MISC"),
                  heap |-> SubSeq(free_sconv_object(Append(H, obj), sc), 1, Len(H)),
                  sc |-> NULL]
            ELSE [a |-> IF isnull THEN A ELSE add_sconv_object(A, sc),
                  heap |-> Append(H, obj), sc |-> sc]])])])

\* default_iconv_charset(charset)
default_iconv_charset(charset, cs) == IF charset # "" THEN charset ELSE cs

\* get_current_charset(a): [a, cur]; current_code = "" stands for NULL
get_current_charset(A, isnull, cs) ==
    IF isnull THEN [a |-> A, cur |-> default_iconv_charset("", cs)]
    ELSE [a |-> IF A.current_code = ""
                THEN [A EXCEPT !.current_code = default_iconv_charset("", cs),
                               !.current_codepage = get_current_codepage]
                ELSE A,
          cur |-> default_iconv_charset(A.current_code, cs)]

BestEffortFlag(best_effort) == IF best_effort THEN {"SCONV_BEST_EFFORT"} ELSE {}

\* archive_string_conversion_to_charset(a, charset, best_effort)
archive_string_conversion_to_charset(A, H, isnull, charset, best_effort, iconv, cs, oom) ==
    With([g \in {get_current_charset(A, isnull, cs)} |->
        get_sconv_object(g.a, H, isnull, g.cur, charset,
                         {"SCONV_TO_CHARSET"} \cup BestEffortFlag(best_effort),
                         iconv, oom)])

\* archive_string_conversion_from_charset(a, charset, best_effort)
archive_string_conversion_from_charset(A, H, isnull, charset, best_effort, iconv, cs, oom) ==
    With([g \in {get_current_charset(A, isnull, cs)} |->
        get_sconv_object(g.a, H, isnull, charset, g.cur,
                         {"SCONV_FROM_CHARSET"} \cup BestEffortFlag(best_effort),
                         iconv, oom)])

\* the objects on the list a->sconv
Registered(A) == {A.sconv[i] : i \in 1..Len(A.sconv)}

\* the objects of a list released one after the other
RECURSIVE FreeAll(_, _)
FreeAll(H, list) ==
    IF list = <<>> THEN H ELSE FreeAll(free_sconv_object(H, Head(list)), Tail(list))

\* a teardown that releases the objects and leaves them on the list
conversion_free_keeping_list(A, H) ==
    [a |-> [A EXCEPT !.current_code = ""], heap |-> FreeAll(H, A.sconv)]

\* archive_string_conversion_free(a): [a, heap]
archive_string_conversion_free(A, H) ==
    [a |-> [A EXCEPT !.sconv = <<>>, !.current_code = ""],
     heap |-> FreeAll(H, A.sconv)]

(***************************************************************************)
(* Unicode conversion functions.  A decoder reads the source through a     *)
(* pointer p at offset o (cells Rd(p, mem, o + i)) and returns [cnt, wc]:  *)
(* the int it returns and the value *pwc holds after the call.  old is the *)
(* value *pwc held before the call, junk the indeterminate value of a      *)
(* local that was never assigned.                                          *)
(***************************************************************************)
\* (b & 0xc0) == 0x80
IsCont(b) == b >= 128 /\ b < 192

IS_HIGH_SURROGATE_LA(uc) == uc >= 55296 /\ uc <= 56319

IS_LOW_SURROGATE_LA(uc) == uc >= 56320 /\ uc <= 57343

IS_SURROGATE_PAIR_LA(uc) == uc >= 55296 /\ uc <= 57343

UNICODE_MAX == 1114111

UNICODE_R_CHAR == 65533

\* a table that takes C0 and C1 for the lead of a two-byte sequence
utf8_count_with_C0_as_lead(ch) ==
    IF ch < 128 THEN 1
    ELSE IF ch < 192 THEN 0
    ELSE IF ch < 224 THEN 2
    ELSE IF ch < 240 THEN 3
    ELSE IF ch < 245 THEN 4
    ELSE 0

\* the table utf8_count[256]
utf8_count(ch) ==
    IF ch < 128 THEN 1
    ELSE IF ch < 194 THEN 0
    ELSE IF ch < 224 THEN 2
    ELSE IF ch < 240 THEN 3
    ELSE IF ch < 245 THEN 4
    ELSE 0

\* "for (i = 1; i < cnt; i++) if ((s[i] & 0xc0) != 0x80) { cnt = i; break; }"
RECURSIVE ContScan(_, _, _, _, _)
ContScan(p, mem, o, cnt, i) ==
    IF i >= cnt THEN cnt
    ELSE IF ~IsCont(Rd(p, mem, o + i)) THEN i
    ELSE ContScan(p, mem, o, cnt, i + 1)

\* the label invalid_sequence of _utf8_to_unicode
InvalidSequence(cnt) == [cnt |-> 0 - cnt, wc |-> UNICODE_R_CHAR]

\* the length _utf8_to_unicode gives an invalid lead byte
InvalidLeadLength(ch) ==
    IF ch = 192 \/ ch = 193 THEN 2
    ELSE IF ch >= 245 /\ ch <= 247 THEN 4
    ELSE IF ch >= 248 /\ ch <= 251 THEN 5
    ELSE IF ch = 252 \/ ch = 253 THEN 6
    ELSE 1

\* _utf8_to_unicode(pwc, s, n)
_utf8_to_unicode(p, mem, o, n, old) ==
    IF n = 0 THEN [cnt |-> 0, wc |-> old]
    ELSE
    With([ch \in {Rd(p, mem, o)} |->
        IF ch = 0 THEN [cnt |-> 0, wc |-> old]
        ELSE
        With([cnt \in {utf8_count(ch)} |->
            IF n < cnt THEN InvalidSequence(ContScan(p, mem, o, n, 1))
            ELSE IF cnt = 1 THEN [cnt |-> 1, wc |-> ch % 128]
            ELSE IF cnt = 2 THEN
                 IF ~IsCont(Rd(p, mem, o + 1)) THEN InvalidSequence(1)
                 ELSE [cnt |-> 2, wc |-> (ch % 32) * 64 + (Rd(p, mem, o + 1) % 64)]
            ELSE IF cnt = 3 THEN
                 IF ~IsCont(Rd(p, mem, o + 1)) THEN InvalidSequence(1)
                 ELSE IF ~IsCont(Rd(p, mem, o + 2)) THEN InvalidSequence(2)
                 ELSE
                 With([wc \in {(ch % 16) * 4096 + (Rd(p, mem, o + 1) % 64) * 64
                                 + (Rd(p, mem, o + 2) % 64)} |->
                     IF wc < 2048 THEN InvalidSequence(3)
                     ELSE [cnt |-> 3, wc |-> wc]])
            ELSE IF cnt = 4 THEN
                 IF ~IsCont(Rd(p, mem, o + 1)) THEN InvalidSequence(1)
                 ELSE IF ~IsCont(Rd(p, mem, o + 2)) THEN InvalidSequence(2)
                 ELSE IF ~IsCont(Rd(p, mem, o + 3)) THEN InvalidSequence(3)
                 ELSE
                 With([wc \in {(ch % 8) * 262144 + (Rd(p, mem, o + 1) % 64) * 4096
                                 + (Rd(p, mem, o + 2) % 64) * 64
                                 + (Rd(p, mem, o + 3) % 64)} |->
                     IF wc < 65536 THEN InvalidSequence(4)
                     ELSE IF wc > UNICODE_MAX THEN InvalidSequence(4)
                     ELSE [cnt |-> 4, wc |-> wc]])
            ELSE InvalidSequence(ContScan(p, mem, o, Min(InvalidLeadLength(ch), n), 1))])])

\* utf8_to_unicode(pwc, s, n): _utf8_to_unicode into a local wc; a surrogate
\* returns -3 before *pwc is assigned
utf8_to_unicode(p, mem, o, n, old, junk) ==
    With([r \in {_utf8_to_unicode(p, mem, o, n, junk)} |->
        IF r.cnt = 3 /\ IS_SURROGATE_PAIR_LA(r.wc) THEN [cnt |-> -3, wc |-> old]
        ELSE r])

\* combine_surrogate_pair(uc, uc2)
combine_surrogate_pair(uc, uc2) == (uc - 55296) * 1024 + (uc2 - 56320) + 65536

\* cesu8_to_unicode(pwc, s, n): the label invalid_sequence returns cnt as it is
cesu8_to_unicode(p, mem, o, n, old, junk) ==
    With([r \in {_utf8_to_unicode(p, mem, o, n, junk)} |->
        IF r.cnt = 3 /\ IS_HIGH_SURROGATE_LA(r.wc) THEN
             IF n - 3 < 3 THEN [cnt |-> 3, wc |-> UNICODE_R_CHAR]
             ELSE
             With([r2 \in {_utf8_to_unicode(p, mem, o + 3, n - 3, junk)} |->
                 IF r2.cnt # 3 \/ ~IS_LOW_SURROGATE_LA(r2.wc)
                 THEN [cnt |-> r2.cnt, wc |-> UNICODE_R_CHAR]
                 ELSE [cnt |-> 6, wc |-> combine_surrogate_pair(r.wc, r2.wc)]])
        ELSE IF r.cnt = 3 /\ IS_LOW_SURROGATE_LA(r.wc)
        THEN [cnt |-> 3, wc |-> UNICODE_R_CHAR]
        ELSE r])

\* an encoder whose one-byte range ends at 0x80
unicode_to_utf8_one_byte_to_0x80(uc) ==
    IF uc <= 128 THEN <<uc>>
    ELSE IF uc <= 2047 THEN <<192 + ((uc \div 64) % 32), 128 + (uc % 64)>>
    ELSE IF uc <= 65535
    THEN <<224 + ((uc \div 4096) % 16), 128 + ((uc \div 64) % 64), 128 + (uc % 64)>>
    ELSE <<240 + ((uc \div 262144) % 8), 128 + ((uc \div 4096) % 64),
           128 + ((uc \div 64) % 64), 128 + (uc % 64)>>

\* unicode_to_utf8(p, uc): the bytes stored at p (their count is returned)
unicode_to_utf8(uc) ==
    IF uc <= 127 THEN <<uc>>
    ELSE IF uc <= 2047 THEN <<192 + ((uc \div 64) % 32), 128 + (uc % 64)>>
    ELSE IF uc <= 65535
    THEN <<224 + ((uc \div 4096) % 16), 128 + ((uc \div 64) % 64), 128 + (uc % 64)>>
    ELSE IF uc <= UNICODE_MAX
    THEN <<240 + ((uc \div 262144) % 8), 128 + ((uc \div 4096) % 64),
           128 + ((uc \div 64) % 64), 128 + (uc % 64)>>
    ELSE <<239, 191, 189>>

\* "as->length = p - as->s; archive_string_ensure(as, size); p = as->s +
\* as->length": the buffer afterwards (p is its length)
Regrow(as, p, size) == archive_string_ensure([as EXCEPT !.length = p], size)

\* "as->length = p - as->s; as->s[as->length] = '\0'"
Terminate(as, p) == [as EXCEPT !.s = Poke(as.s, p, <<0>>), !.length = p]

\* "while ((n = utf8_to_unicode(&uc, s, len)) > 0) { s += n; len -= n; }":
\* [s, len, n, uc] when the loop ends
RECURSIVE ForwardValid(_, _, _, _, _, _)
ForwardValid(p, mem, s, len, uc, junk) ==
    With([r \in {utf8_to_unicode(p, mem, s, len, uc, junk)} |->
        IF r.cnt > 0 THEN ForwardValid(p, mem, s + r.cnt, len - r.cnt, r.wc, junk)
        ELSE [s |-> s, len |-> len, n |-> r.cnt, uc |-> r.wc]])

\* one pass of the do-while body of strncat_from_utf8_to_utf8; st = [as, p,
\* s, len, ret]: [brk, st] with brk "the loop ends here" (st.as is then
\* terminated and st.ret is the value returned)
U8Iter(src, st, junk) ==
    With([as1 \in {IF st.p + st.len > st.as.buffer_length - 1 - 4
                   THEN Regrow(st.as, st.p, st.as.buffer_length + st.len + 1)
                   ELSE st.as} |->
    With([f \in {ForwardValid(src, as1.s, st.s, st.len, junk, junk)} |->
    \* "if (ss < s) { memcpy(p, ss, s - ss); p += s - ss; }"
    With([as2 \in {IF st.s < f.s
                   THEN [as1 EXCEPT !.s = Poke(as1.s, st.p,
                            [i \in 1..(f.s - st.s) |-> Rd(src, as1.s, st.s + i - 1)])]
                   ELSE as1} |->
    With([p2 \in {st.p + (f.s - st.s)} |->
        IF f.n >= 0
        THEN [brk |-> TRUE,
              st |-> [as |-> Terminate(as2, p2), p |-> p2, s |-> f.s, len |-> f.len,
                      ret |-> st.ret]]
        ELSE
        \* "if (n < 0)": a surrogate (-3) is read again by cesu8_to_unicode
        With([c \in {IF f.n = -3 /\ IS_SURROGATE_PAIR_LA(f.uc)
                     THEN cesu8_to_unicode(src, as2.s, f.s, f.len, f.uc, junk)
                     ELSE [cnt |-> f.n, wc |-> f.uc]} |->
        \* "Rebuild UTF-8 byte sequence": the buffer is grown when p + 4 > endp
        With([as3 \in {IF p2 + 4 > as2.buffer_length - 1 - 4
                       THEN Regrow(as2, p2, as2.buffer_length + f.len + 1)
                       ELSE as2} |->
        \* "p += unicode_to_utf8(p, uc)"
        With([out \in {unicode_to_utf8(c.wc)} |->
        With([as4 \in {[as3 EXCEPT !.s = Poke(as3.s, p2, out)]} |->
        \* a negative n is "n *= -1; ret = -1"
        With([n3 \in {IF c.cnt < 0 THEN 0 - c.cnt ELSE c.cnt} |->
        With([ret3 \in {IF c.cnt < 0 THEN -1 ELSE st.ret} |->
            \* "s += n; len -= n" and the loop's test "while (n > 0)"
            IF n3 > 0
            THEN [brk |-> FALSE,
                  st |-> [as |-> as4, p |-> p2 + Len(out), s |-> f.s + n3,
                          len |-> f.len - n3, ret |-> ret3]]
            ELSE [brk |-> TRUE,
                  st |-> [as |-> Terminate(as4, p2 + Len(out)), p |-> p2 + Len(out),
                          s |-> f.s, len |-> f.len, ret |-> ret3]]
        ])])])])])])])])])])

\* the do-while loop of strncat_from_utf8_to_utf8: [as, r]
RECURSIVE U8Loop(_, _, _)
U8Loop(src, st, junk) ==
    With([i \in {U8Iter(src, st, junk)} |->
        IF i.brk THEN [as |-> i.st.as, r |-> i.st.ret]
        ELSE U8Loop(src, i.st, junk)])

\* strncat_from_utf8_to_utf8 before its loop: the buffer is ensured
U8Start(as, len) ==
    With([e \in {archive_string_ensure(as, as.length + len + 1)} |->
        [as |-> e, p |-> e.length, s |-> 0, len |-> len, ret |-> 0]])

\* strncat_from_utf8_to_utf8(as, s, len): [as, r]
strncat_from_utf8_to_utf8(as, src, len, junk) == U8Loop(src, U8Start(as, len), junk)

(***************************************************************************)
(* Normalization to Form C.  The tables of archive_string_composition.h    *)
(* are given for the code points the model's inputs use.  A loop state st  *)
(* is [as, p, s, len, ret]: the destination, the offset of p in it, the    *)
(* offset of s in the source, the bytes left and the value to return.      *)
(***************************************************************************)
HC_SBASE == 44032

HC_LBASE == 4352

HC_VBASE == 4449

HC_TBASE == 4519

HC_LCOUNT == 19

HC_VCOUNT == 21

HC_TCOUNT == 28

HC_NCOUNT == HC_VCOUNT * HC_TCOUNT

HC_SCOUNT == HC_LCOUNT * HC_NCOUNT

FDC_MAX == 10

\* u_composition_table: <<cp1, cp2, nfc>>
u_composition_table ==
    { <<101, 769, 233>>, <<101, 770, 234>>, <<101, 803, 7865>>,
      <<7865, 770, 7879>> }

\* get_nfc(uc, uc2): the table's nfc for the pair, 0 if it has none
get_nfc(uc, uc2) ==
    IF \E e \in u_composition_table : e[1] = uc /\ e[2] = uc2
    THEN (CHOOSE e \in u_composition_table : e[1] = uc /\ e[2] = uc2)[3]
    ELSE 0

\* CCC(uc): the canonical combining class
CCC(uc) ==
    IF uc \in {768, 769, 770} THEN 230
    ELSE IF uc = 803 THEN 220
    ELSE 0

\* IS_DECOMPOSABLE_BLOCK(uc): the 256-code-point block holds a combining
\* character or a Hangul Jamo
IS_DECOMPOSABLE_BLOCK(uc) == (uc \div 256) \in {3, 17}

\* "ucptr = NULL"
NoPtr == -1

\* "*p++ = *ucptr++" k times
RECURSIVE CopyBytes(_, _, _, _, _)
CopyBytes(src, mem, dst, from, k) ==
    IF k = 0 THEN mem
    ELSE CopyBytes(src, Poke(mem, dst, <<Rd(src, mem, from)>>), dst + 1, from + 1, k - 1)

\* "p += unicode_to_utf8(p, uc)"
PutUc(st, uc) ==
    With([out \in {unicode_to_utf8(uc)} |->
        [st EXCEPT !.as.s = Poke(@, st.p, out), !.p = @ + Len(out)]])

\* WRITE_UC()
WRITE_UC(src, st, uc, ucptr, n) ==
    IF ucptr # NoPtr
    THEN IF n \in 1..4
         THEN [st EXCEPT !.as.s = CopyBytes(src, @, st.p, ucptr, n), !.p = @ + n]
         ELSE st
    ELSE PutUc(st, uc)

\* MAKE_SURE_ENOUGH_BUFFER()
MAKE_SURE_ENOUGH_BUFFER(st) ==
    IF st.p + st.len > st.as.buffer_length - 1 - 4
    THEN [st EXCEPT !.as = Regrow(st.as, st.p, st.as.buffer_length + st.len + 1)]
    ELSE st

\* "p += unicode_to_utf8(p, uc); s += n*-1; len -= n*-1; ret = -1" after
\* MAKE_SURE_ENOUGH_BUFFER()
Replace(st, uc, n) ==
    [PutUc(MAKE_SURE_ENOUGH_BUFFER(st), uc)
        EXCEPT !.s = @ + (0 - n), !.len = @ - (0 - n), !.ret = -1]

\* COLLECT_CPS(start): c = [ucx, ccx, cl, cx, nx, s, len, ret], the arrays
\* holding their first ucx_size elements
RECURSIVE COLLECT_CPS(_, _, _, _, _)
COLLECT_CPS(src, mem, c, i, junk) ==
    IF i >= FDC_MAX THEN [c EXCEPT !.ret = -1]
    ELSE
    With([r \in {cesu8_to_unicode(src, mem, c.s, c.len, junk, junk)} |->
        IF r.cnt <= 0 THEN [c EXCEPT !.nx = r.cnt]
        ELSE
        With([cx \in {CCC(r.wc)} |->
            IF c.cl >= cx /\ c.cl # 228 /\ cx # 228
            THEN [c EXCEPT !.nx = r.cnt, !.cx = cx]
            ELSE COLLECT_CPS(src, mem,
                     [c EXCEPT !.nx = r.cnt, !.cx = cx, !.cl = cx,
                               !.s = @ + r.cnt, !.len = @ - r.cnt,
                               !.ucx = Append(@, r.wc), !.ccx = Append(@, cx)],
                     i + 1, junk)])])

\* element i (counted from 0) removed by shifting the following ones
RemoveAt(seq, i) == SubSeq(seq, 1, i) \o SubSeq(seq, i + 2, Len(seq))

\* "Find a composed code in the collected code points": [uc, ucptr, c]
RECURSIVE FindComposed(_, _, _, _, _, _, _)
FindComposed(src, mem, uc, ucptr, c, i, junk) ==
    IF i >= Len(c.ucx) THEN [uc |-> uc, ucptr |-> ucptr, c |-> c]
    ELSE
    With([nfc \in {get_nfc(uc, c.ucx[i + 1])} |->
        IF nfc = 0 THEN FindComposed(src, mem, uc, ucptr, c, i + 1, junk)
        ELSE
        With([c1 \in {[c EXCEPT !.ucx = RemoveAt(@, i), !.ccx = RemoveAt(@, i)]} |->
        With([size \in {Len(c1.ucx)} |->
            \* "Collect following code points blocked by ucx[i] the removed
            \* code point"
            FindComposed(src, mem, nfc, NoPtr,
                IF size > 0 /\ i = size /\ c.nx > 0 /\ c.cx = c.cl
                THEN COLLECT_CPS(src, mem, [c1 EXCEPT !.cl = c1.ccx[size]], size, junk)
                ELSE c1,
                0, junk)])])])

\* "for (i = 0; i < ucx_size; i++) p += unicode_to_utf8(p, ucx[i])"
RECURSIVE PutAll(_, _)
PutAll(st, ucx) == IF ucx = <<>> THEN st ELSE PutAll(PutUc(st, Head(ucx)), Tail(ucx))

\* "Flush out remaining canonical combining characters"
RECURSIVE Flush(_, _, _, _)
Flush(src, st, cl, junk) ==
    With([r \in {cesu8_to_unicode(src, st.as.s, st.s, st.len, junk, junk)} |->
        IF r.cnt <= 0 \/ cl > CCC(r.wc) THEN st
        ELSE Flush(src, PutUc([st EXCEPT !.s = @ + r.cnt, !.len = @ - r.cnt], r.wc),
                   CCC(r.wc), junk)])

\* the body of the inner loop from "Collect following decomposable code
\* points" to its break
Combine(src, st, uc, ucptr, n, uc2, cl, junk) ==
    With([c0 \in {COLLECT_CPS(src, st.as.s,
                      [ucx |-> <<uc2>>, ccx |-> <<cl>>, cl |-> cl, cx |-> 0, nx |-> 0,
                       s |-> st.s, len |-> st.len, ret |-> st.ret], 1, junk)} |->
    With([f \in {FindComposed(src, st.as.s, uc, ucptr, c0, 1, junk)} |->
    With([st2 \in {PutAll(WRITE_UC(src, [st EXCEPT !.s = f.c.s, !.len = f.c.len,
                                                   !.ret = f.c.ret],
                                   f.uc, f.ucptr, n),
                          f.c.ucx)} |->
        IF f.c.nx > 0 /\ f.c.cx = f.c.cl /\ st2.len > 0
        THEN Flush(src, st2, f.c.cl, junk)
        ELSE st2])])])

\* the do-while loop of archive_string_normalize_C and the while loop in it
RECURSIVE NormLoop(_, _, _), NormSecond(_, _, _, _, _, _)
NormLoop(src, st, junk) ==
    With([r \in {cesu8_to_unicode(src, st.as.s, st.s, st.len, junk, junk)} |->
        IF r.cnt < 0
        THEN With([st1 \in {Replace(st, r.wc, r.cnt)} |->
                 \* the loop's test "while (len > 0)"
                 IF st1.len > 0 THEN NormLoop(src, st1, junk) ELSE st1])
        ELSE IF r.cnt = 0 THEN st
        ELSE NormSecond(src, [st EXCEPT !.s = @ + r.cnt, !.len = @ - r.cnt],
                        r.wc, IF r.cnt = 6 THEN NoPtr ELSE st.s, r.cnt, junk)])

NormSecond(src, st, uc, ucptr, n, junk) ==
    LET \* the outer loop's test "while (len > 0)"
        Again(st2) == IF st2.len > 0 THEN NormLoop(src, st2, junk) ELSE st2
        \* "WRITE_UC(); REPLACE_UC_WITH_UC2(); continue"
        Next(st1, uc2, uc2ptr, n2) ==
            NormSecond(src, WRITE_UC(src, st1, uc, ucptr, n), uc2, uc2ptr, n2, junk)
        \* "UPDATE_UC(new_uc); continue"
        Update(st1, new_uc) == NormSecond(src, st1, new_uc, NoPtr, n, junk)
    IN
    With([r \in {cesu8_to_unicode(src, st.as.s, st.s, st.len, junk, junk)} |->
        IF r.cnt < 0
        THEN Again(Replace(WRITE_UC(src, st, uc, ucptr, n), r.wc, r.cnt))
        ELSE IF r.cnt = 0 THEN WRITE_UC(src, st, uc, ucptr, n)
        ELSE
        With([uc2 \in {r.wc} |->
        With([uc2ptr \in {IF r.cnt = 6 THEN NoPtr ELSE st.s} |->
        With([st1 \in {[st EXCEPT !.s = @ + r.cnt, !.len = @ - r.cnt]} |->
        With([x \in {[LIndex |-> uc - HC_LBASE, VIndex |-> uc2 - HC_VBASE,
                      SIndex |-> uc - HC_SBASE, TIndex |-> uc2 - HC_TBASE]} |->
            IF ~IS_DECOMPOSABLE_BLOCK(uc2) THEN Next(st1, uc2, uc2ptr, r.cnt)
            ELSE IF 0 <= x.LIndex /\ x.LIndex < HC_LCOUNT THEN
                 IF 0 <= x.VIndex /\ x.VIndex < HC_VCOUNT
                 THEN Update(st1, HC_SBASE + (x.LIndex * HC_VCOUNT + x.VIndex) * HC_TCOUNT)
                 ELSE Next(st1, uc2, uc2ptr, r.cnt)
            ELSE IF 0 <= x.SIndex /\ x.SIndex < HC_SCOUNT /\ x.SIndex % HC_TCOUNT = 0 THEN
                 IF 0 < x.TIndex /\ x.TIndex < HC_TCOUNT
                 THEN Update(st1, uc + x.TIndex)
                 ELSE Next(st1, uc2, uc2ptr, r.cnt)
            ELSE
            With([nfc \in {get_nfc(uc, uc2)} |->
                IF nfc # 0 THEN Update(st1, nfc)
                ELSE IF CCC(uc2) = 0 THEN Next(st1, uc2, uc2ptr, r.cnt)
                ELSE Again(Combine(src, st1, uc, ucptr, n, uc2, CCC(uc2), junk))])
        ])])])])])

\* archive_string_normalize_C(as, s, len): [as, r]
archive_string_normalize_C(as, src, len, junk) ==
    With([e \in {archive_string_ensure(as, as.length + len + 1)} |->
    With([st \in {NormLoop(src, [as |-> e, p |-> e.length, s |-> 0, len |-> len,
                                 ret |-> 0], junk)} |->
        [as |-> Terminate(st.as, st.p), r |-> st.ret]])])

(***************************************************************************)
(* The host's conversions: mbrtowc / mbsnrtowcs / wcsnrtombs in the locale *)
(* whose charset is cs, and iconv between two charsets of IconvNames.      *)
(***************************************************************************)
\* whether a byte read as plain char is negative (char is signed)
CharIsNegative(b) == b >= 128

\* GB18030, for the characters the texts used here are made of: U+0080 to
\* U+00A3 are the first four-byte codes (81 30 81 30 onwards, the last byte
\* counting 0x30..0x39), e-acute and the euro sign are two-byte codes, the
\* combining acute accent is a four-byte code
GB18030 ==
    [wc \in 128..163 |-> <<129, 48, 129 + ((wc - 128) \div 10), 48 + ((wc - 128) % 10)>>]
    @@ (233 :> <<168, 166>>) @@ (769 :> <<129, 48, 188, 55>>)
    @@ (8364 :> <<162, 227>>)

\* the bytes of a wide character in charset cs, <<>> if it has none
HostEncode(cs, wc) ==
    IF wc < 0 \/ wc > UNICODE_MAX \/ IS_SURROGATE_PAIR_LA(wc) THEN <<>>
    ELSE IF cs = "UTF-8" THEN unicode_to_utf8(wc)
    ELSE IF cs = "UTF-16BE"
    THEN (IF wc < 65536 THEN <<wc \div 256, wc % 256>>
          ELSE <<216 + ((wc - 65536) \div 262144), ((wc - 65536) \div 1024) % 256,
                 220 + (((wc - 65536) % 1024) \div 256), (wc - 65536) % 256>>)
    ELSE IF cs = "GB18030"
    THEN (IF wc < 128 THEN <<wc>>
          ELSE IF wc \in DOMAIN GB18030 THEN GB18030[wc] ELSE <<>>)
    ELSE IF cs = "CP1252" /\ wc = 8364 THEN <<128>>
    ELSE IF cs = "CP1252" /\ wc >= 128 /\ wc < 160 THEN <<>>
    ELSE IF wc <= 255 THEN <<wc>>
    ELSE <<>>

\* how the n bytes at p + o read as the GB18030 code of wc: "whole" when the
\* code is there, "part" when the n bytes are no more than its beginning
GB18030Reads(wc, p, mem, o, n) ==
    IF \E i \in 1..Len(GB18030[wc]) : i <= n /\ Rd(p, mem, o + i - 1) # GB18030[wc][i]
    THEN "no"
    ELSE IF Len(GB18030[wc]) <= n THEN "whole" ELSE "part"

\* one character of charset cs decoded from at most n bytes at p + o:
\* [k, wc] with k the bytes used, 0 at a NUL, -1 for an invalid sequence,
\* -2 for an incomplete one
HostDecode(cs, p, mem, o, n) ==
    IF n = 0 THEN [k |-> -2, wc |-> 0]
    ELSE IF cs = "UTF-16BE"
    THEN (IF n < 2 THEN [k |-> -2, wc |-> 0]
          ELSE
          With([unit \in {Rd(p, mem, o) * 256 + Rd(p, mem, o + 1)} |->
              IF unit >= 56320 /\ unit <= 57343 THEN [k |-> -1, wc |-> 0]
              ELSE IF unit < 55296 \/ unit > 57343 THEN [k |-> 2, wc |-> unit]
              ELSE IF n < 4 THEN [k |-> -2, wc |-> 0]
              ELSE
              With([low \in {Rd(p, mem, o + 2) * 256 + Rd(p, mem, o + 3)} |->
                  IF low >= 56320 /\ low <= 57343
                  THEN [k |-> 4,
                        wc |-> 65536 + (unit - 55296) * 1024 + (low - 56320)]
                  ELSE [k |-> -1, wc |-> 0]])]))
    ELSE
    With([ch \in {Rd(p, mem, o)} |->
        IF ch = 0 THEN [k |-> 0, wc |-> 0]
        ELSE IF cs = "CP1252" /\ ch = 128 THEN [k |-> 1, wc |-> 8364]
        ELSE IF cs = "CP1252" /\ ch = 129 THEN [k |-> -1, wc |-> 0]
        ELSE IF cs = "GB18030"
        THEN (IF ch < 128 THEN [k |-> 1, wc |-> ch]
              ELSE IF \E wc \in DOMAIN GB18030 : GB18030Reads(wc, p, mem, o, n) = "whole"
              THEN [k |-> Len(GB18030[CHOOSE wc \in DOMAIN GB18030 :
                                         GB18030Reads(wc, p, mem, o, n) = "whole"]),
                    wc |-> CHOOSE wc \in DOMAIN GB18030 :
                              GB18030Reads(wc, p, mem, o, n) = "whole"]
              ELSE IF \E wc \in DOMAIN GB18030 : GB18030Reads(wc, p, mem, o, n) = "part"
              THEN [k |-> -2, wc |-> 0]
              ELSE [k |-> -1, wc |-> 0])
        ELSE IF cs # "UTF-8" THEN [k |-> 1, wc |-> ch]
        ELSE
        With([r \in {_utf8_to_unicode(p, mem, o, n, 0)} |->
            IF r.cnt > 0
            THEN (IF IS_SURROGATE_PAIR_LA(r.wc) THEN [k |-> -1, wc |-> 0]
                  ELSE [k |-> r.cnt, wc |-> r.wc])
            ELSE IF utf8_count(ch) > n /\ ContScan(p, mem, o, n, 1) = n
            THEN [k |-> -2, wc |-> 0]
            ELSE [k |-> -1, wc |-> 0]])])

\* mbsnrtowcs(wcs, &mbs, nms, len, &state): [r, out] with out the wide
\* characters stored (a terminating L'\0' included when one is met)
RECURSIVE mbsnrtowcs(_, _, _, _, _, _, _)
mbsnrtowcs(cs, p, mem, o, nms, len, out) ==
    IF len = 0 THEN [r |-> Len(out), out |-> out]
    ELSE
    With([d \in {HostDecode(cs, p, mem, o, nms)} |->
        IF d.k = -2 THEN [r |-> Len(out), out |-> out]
        ELSE IF d.k = -1 THEN [r |-> -1, out |-> out]
        ELSE IF d.k = 0 THEN [r |-> Len(out), out |-> Append(out, 0)]
        ELSE mbsnrtowcs(cs, p, mem, o + d.k, nms - d.k, len - 1, Append(out, d.wc))])

\* archive_wstring_append_from_mbs(dest, p, len): [as, r]
archive_wstring_append_from_mbs(dest, p, len, cs) ==
    With([e \in {archive_wstring_ensure(dest, dest.length + len + 1)} |->
    With([c \in {mbsnrtowcs(cs, p, e.s, 0, len, len, <<>>)} |->
    With([m \in {Poke(e.s, e.length, c.out)} |->
        IF c.r # -1
        THEN [as |-> [e EXCEPT !.s = Poke(m, e.length + c.r, <<0>>),
                               !.length = e.length + c.r],
              r |-> 0]
        ELSE [as |-> [e EXCEPT !.s = Poke(m, e.length, <<0>>)], r |-> -1]])])])

\* wcsnrtombs(dest, &wp, nwc, len, &state) on the wide characters w:
\* [r, out, used, stop] with used the characters consumed and stop one of
\* "nul" (wp is NULL), "EILSEQ", "full", "end"
RECURSIVE wcsnrtombs(_, _, _, _, _, _)
wcsnrtombs(cs, w, nwc, len, out, used) ==
    IF nwc = 0 \/ w = <<>>
    THEN [r |-> Len(out), out |-> out, used |-> used, stop |-> "end"]
    ELSE IF Head(w) = 0
    THEN [r |-> Len(out), out |-> out, used |-> used, stop |-> "nul"]
    ELSE
    With([b \in {HostEncode(cs, Head(w))} |->
        IF b = <<>>
        THEN [r |-> -1, out |-> out, used |-> used, stop |-> "EILSEQ"]
        ELSE IF Len(out) + Len(b) > len
        THEN [r |-> Len(out), out |-> out, used |-> used, stop |-> "full"]
        ELSE wcsnrtombs(cs, Tail(w), nwc - 1, len, out \o b, used + 1)])

\* the while loop of archive_string_append_from_wcs: [as, r]
RECURSIVE FromWcsLoop(_, _, _, _, _, _)
FromWcsLoop(cs, as, w, nwc, ndest, ret_val) ==
    IF nwc <= 0
    THEN [as |-> IF as.alloc THEN Terminate(as, as.length) ELSE as, r |-> ret_val]
    ELSE
    With([e \in {archive_string_ensure(as, as.length + ndest + 1)} |->
    With([c \in {wcsnrtombs(cs, w, nwc, e.buffer_length - e.length - 1, <<>>, 0)} |->
    With([w1 \in {[e EXCEPT !.s = Poke(@, e.length, c.out), !.length = @ + Len(c.out)]} |->
        IF c.stop = "EILSEQ"
        THEN \* "Skip an illegal wide char": a '?' is stored in its place
             FromWcsLoop(cs, [w1 EXCEPT !.s = Poke(@, w1.length, <<63>>), !.length = @ + 1],
                         Drop(w, c.used + 1), nwc - c.used - 1, ndest, -1)
        ELSE IF c.stop = "nul" \/ c.used >= nwc
        THEN [as |-> Terminate(w1, w1.length), r |-> ret_val]
        ELSE FromWcsLoop(cs, w1, Drop(w, c.used), nwc - c.used, ndest, ret_val)])])])

\* archive_string_append_from_wcs(as, w, len): [as, r].  With len = 0 the
\* loop never allocates and "as->s[as->length] = '\0'" stores through as->s,
\* which is NULL in a buffer never allocated: NullStore tells that case.
NullStore(as, len) == len = 0 /\ ~as.alloc

archive_string_append_from_wcs(as, w, len, cs) ==
    FromWcsLoop(cs, as, w, len, len * 2, 0)

\* invalid_mbs(p, n, sc): mbrtowc over the n bytes
RECURSIVE invalid_mbs(_, _, _, _, _)
invalid_mbs(cs, p, mem, o, n) ==
    IF n = 0 THEN 0
    ELSE
    With([d \in {HostDecode(cs, p, mem, o, n)} |->
        IF d.k < 0 THEN -1
        ELSE IF d.k = 0 THEN 0
        ELSE invalid_mbs(cs, p, mem, o + d.k, n - d.k)])

\* one call of iconv from charset fc to charset tc; c = [as, inp, remaining,
\* outp, avail, rv]: [c, errno] with errno "0" when all input is converted
RECURSIVE iconv(_, _, _, _)
iconv(fc, tc, src, c) ==
    IF c.remaining = 0 THEN [c |-> c, errno |-> "0"]
    ELSE
    With([d \in {HostDecode(fc, src, c.as.s, c.inp, c.remaining)} |->
    With([b \in {HostEncode(tc, d.wc)} |->
    With([k \in {IF d.k = 0 THEN 1 ELSE d.k} |->
        IF d.k = -2 THEN [c |-> c, errno |-> "EINVAL"]
        ELSE IF d.k = -1 \/ b = <<>> THEN [c |-> c, errno |-> "EILSEQ"]
        ELSE IF Len(b) > c.avail THEN [c |-> c, errno |-> "E2BIG"]
        ELSE
        With([c2 \in {[c EXCEPT !.as.s = Poke(@, c.outp, b), !.outp = @ + Len(b),
                                !.avail = @ - Len(b), !.inp = @ + k,
                                !.remaining = @ - k]} |->
            iconv(fc, tc, src, c2)])])])])

(***************************************************************************)
(* Copying a string in locale conversion.  sc is <<>> for a NULL pointer   *)
(* and <<object>> otherwise; a result is [as, r, utf8]: the destination,   *)
(* the value returned and the object's scratch buffer sc->utf8 afterwards. *)
(* No charset of the model is UTF-16BE and the build never sets            *)
(* SCONV_UTF8_LIBARCHIVE_2, so those branches are not taken.               *)
(***************************************************************************)
Scratch(sc) == IF sc = <<>> THEN archive_string_init ELSE sc[1].utf8

\* the locals of a conversion loop before its first pass, the buffer ensured
\* for room more bytes: "remaining = length; outp = as->s + as->length;
\* avail = as->buffer_length - as->length - 1"
LoopStart(as, room, length, rv) ==
    With([e \in {archive_string_ensure(as, as.length + room + 1)} |->
        [as |-> e, inp |-> 0, remaining |-> length, outp |-> e.length,
         avail |-> e.buffer_length - e.length - 1, rv |-> rv]])

\* one pass of the while body of best_effort_strncat_in_locale on the byte b
\* at inp; c = [as, inp, remaining, outp, avail, rv]
BestEffortIter(flag, c, b) ==
    IF CharIsNegative(b) /\ "SCONV_TO_UTF8" \in flag
    THEN
    With([grow \in {c.avail < c.remaining + 2} |->
    With([as1 \in {IF grow
                   THEN Regrow(c.as, c.outp, c.as.buffer_length + c.remaining)
                   ELSE c.as} |->
    With([av1 \in {IF grow THEN as1.buffer_length - as1.length - 1
                   ELSE c.avail} |->
        [c EXCEPT !.as = [as1 EXCEPT !.s = Poke(@, c.outp, <<239, 191, 189>>)],
                  !.outp = @ + 3, !.avail = av1 - 3, !.inp = @ + 1,
                  !.remaining = @ - 1, !.rv = -1]])])])
    ELSE IF CharIsNegative(b)
    THEN [c EXCEPT !.as.s = Poke(@, c.outp, <<63>>), !.outp = @ + 1,
                   !.inp = @ + 1, !.remaining = @ - 1, !.rv = -1]
    ELSE [c EXCEPT !.as.s = Poke(@, c.outp, <<b>>), !.outp = @ + 1,
                   !.inp = @ + 1, !.remaining = @ - 1]

\* the loop's test "*inp && remaining > 0"
BestEffortMore(src, c) == Rd(src, c.as.s, c.inp) # 0 /\ c.remaining > 0

\* the while loop of best_effort_strncat_in_locale
RECURSIVE BestEffortLoop(_, _, _)
BestEffortLoop(src, flag, c) ==
    IF ~BestEffortMore(src, c) THEN c
    ELSE BestEffortLoop(src, flag, BestEffortIter(flag, c, Rd(src, c.as.s, c.inp)))

\* best_effort_strncat_in_locale(as, p, n, sc)
best_effort_strncat_in_locale(as, src, n, sc, cs, junk) ==
    With([length \in {la_strnlen(src, as.s, n)} |->
        IF sc # <<>> /\ "SCONV_COPY_UTF8_TO_UTF8" \in sc[1].flag
        THEN
        With([u8 \in {IF "SCONV_NORMALIZATION_C" \in sc[1].flag
                      THEN archive_string_normalize_C(as, src, length, junk)
                      ELSE strncat_from_utf8_to_utf8(as, src, length, junk)} |->
            [as |-> u8.as, r |-> u8.r, utf8 |-> Scratch(sc)]])
        ELSE IF sc = <<>>
        THEN [as |-> archive_string_append(as, src, length), r |-> 0,
              utf8 |-> Scratch(sc)]
        ELSE IF sc[1].same
        THEN
        With([copied \in {archive_string_append(as, src, length)} |->
            [as |-> copied, r |-> invalid_mbs(cs, src, copied.s, 0, length),
             utf8 |-> Scratch(sc)]])
        ELSE
        With([c \in {BestEffortLoop(src, sc[1].flag, LoopStart(as, length, length, 0))} |->
            [as |-> Terminate(c.as, c.outp), r |-> c.rv, utf8 |-> Scratch(sc)]])])

\* a pass that reports the failure and leaves the input where iconv stopped
IconvIter_without_skip(fc, tc, flag, src, c) ==
    With([i \in {iconv(fc, tc, src, c)} |->
        IF i.errno = "0"
        THEN [c |-> [i.c EXCEPT !.as = Terminate(i.c.as, i.c.outp)], brk |-> TRUE,
              errno |-> i.errno]
        ELSE [c |-> [i.c EXCEPT !.rv = -1], brk |-> FALSE, errno |-> i.errno]])

\* one pass of the while body of archive_strncat_in_locale; c = [as, inp,
\* remaining, outp, avail, rv]: [c, brk, errno] with brk "break" and errno
\* what the call of iconv reported
IconvIter(fc, tc, flag, src, c) ==
    With([i \in {iconv(fc, tc, src, c)} |->
    With([d \in {i.c} |->
        IF i.errno = "0"
        THEN [c |-> [d EXCEPT !.as = Terminate(d.as, d.outp)], brk |-> TRUE,
              errno |-> i.errno]
        ELSE
        With([grown \in {Regrow(d.as, d.outp, d.as.buffer_length * 2)} |->
            IF i.errno \in {"EILSEQ", "EINVAL"}
            THEN IF "SCONV_TO_UTF8" \in flag
                 THEN
                 With([room \in {IF d.avail < 3
                                 THEN [d EXCEPT !.as = grown, !.outp = grown.length,
                                                !.avail = grown.buffer_length
                                                            - grown.length - 1]
                                 ELSE d} |->
                     [c |-> [room EXCEPT !.as.s = Poke(@, room.outp, <<239, 191, 189>>),
                                         !.outp = @ + 3, !.avail = @ - 3, !.inp = @ + 1,
                                         !.remaining = @ - 1, !.rv = -1],
                      brk |-> FALSE, errno |-> i.errno]])
                 ELSE [c |-> [d EXCEPT !.as.s = Poke(@, d.outp, <<63>>),
                                       !.outp = @ + 1, !.avail = @ - 1, !.inp = @ + 1,
                                       !.remaining = @ - 1, !.rv = -1],
                       brk |-> FALSE, errno |-> i.errno]
            ELSE [c |-> [d EXCEPT !.as = grown, !.outp = grown.length,
                                  !.avail = grown.buffer_length - grown.length - 1],
                  brk |-> FALSE, errno |-> i.errno]])])])

\* the while loop of archive_strncat_in_locale
RECURSIVE IconvLoop(_, _, _, _, _)
IconvLoop(fc, tc, flag, src, c) ==
    IF c.remaining <= 0 THEN c
    ELSE
    With([i \in {IconvIter(fc, tc, flag, src, c)} |->
        IF i.brk THEN i.c ELSE IconvLoop(fc, tc, flag, src, i.c)])

\* "if (sc->flag & SCONV_NORMALIZATION_C)": the source is first normalized
\* into sc->utf8; [src, len, rv, utf8] is what the loop is then given
IconvSource(src, length, sc, junk) ==
    IF "SCONV_NORMALIZATION_C" \in sc[1].flag
    THEN With([norm \in {archive_string_normalize_C(
                            archive_string_empty(sc[1].utf8), src, length, junk)} |->
             [src |-> Ptr(norm.as.s), len |-> norm.as.length,
              rv |-> IF norm.r # 0 THEN -1 ELSE 0, utf8 |-> norm.as]])
    ELSE [src |-> src, len |-> length, rv |-> 0, utf8 |-> Scratch(sc)]

\* archive_strncat_in_locale(as, p, n, sc) of a build with iconv
StrncatIconv(as, src, n, sc, cs, junk) ==
    With([length \in {la_strnlen(src, as.s, n)} |->
        IF sc = <<>>
        THEN [as |-> archive_string_append(as, src, length), r |-> 0,
              utf8 |-> Scratch(sc)]
        ELSE IF "SCONV_COPY_UTF8_TO_UTF8" \in sc[1].flag
        THEN
        With([u8 \in {IF "SCONV_NORMALIZATION_C" \in sc[1].flag
                      THEN archive_string_normalize_C(as, src, length, junk)
                      ELSE strncat_from_utf8_to_utf8(as, src, length, junk)} |->
            [as |-> u8.as, r |-> u8.r, utf8 |-> Scratch(sc)]])
        ELSE IF sc[1].cd = "-1"
        THEN best_effort_strncat_in_locale(as, src, n, sc, cs, junk)
        ELSE
        With([x \in {IconvSource(src, length, sc, junk)} |->
        With([c \in {IconvLoop(sc[1].from_charset, sc[1].to_charset, sc[1].flag, x.src,
                         LoopStart(as, x.len * 2, x.len, x.rv))} |->
            [as |-> c.as, r |-> c.rv, utf8 |-> x.utf8]])])])

\* archive_strncat_in_locale(as, p, n, sc)
archive_strncat_in_locale(as, src, n, sc, iconv_, cs, junk) ==
    IF iconv_ THEN StrncatIconv(as, src, n, sc, cs, junk)
    ELSE best_effort_strncat_in_locale(as, src, n, sc, cs, junk)

\* archive_strncpy_in_locale(as, p, n, sc)
archive_strncpy_in_locale(as, src, n, sc, iconv_, cs, junk) ==
    archive_strncat_in_locale([as EXCEPT !.length = 0], src, n, sc, iconv_, cs, junk)

\* archive_strcpy_in_locale (macro): the length is strlen(p)
archive_strcpy_in_locale(as, src, sc, iconv_, cs, junk) ==
    archive_strncpy_in_locale(as, src, la_strnlen(src, as.s, StrcatLimit), sc,
                              iconv_, cs, junk)

(***************************************************************************)
(* Multistring operations.  An operation returns [a, heap, aes, ret, p,    *)
(* fault]: p names the form whose buffer pointer the caller receives       *)
(* ("NULL" for a NULL pointer), fault is whether the call stored through a *)
(* NULL pointer instead of returning.                                      *)
(***************************************************************************)
\* the pointer as->s of a form, as the caller receives it
FormPtr(AES, form) == IF AES[form].alloc THEN form ELSE "NULL"

Returned(A, H, AES, ret, p) ==
    [a |-> A, heap |-> H, aes |-> AES, ret |-> ret, p |-> p, fault |-> FALSE]

Faulted(A, H, AES) ==
    [a |-> A, heap |-> H, aes |-> AES, ret |-> 0, p |-> "NULL", fault |-> TRUE]

\* the heap once the conversion with object g.sc is over: sc->utf8 is what
\* the conversion left; "if (a == NULL) free_sconv_object(sc)" releases the
\* object, which no pointer refers to any more
AfterUse(H, g, isnull, utf8) ==
    IF isnull
    THEN SubSeq(free_sconv_object([g.heap EXCEPT ![g.sc].utf8 = utf8], g.sc), 1, Len(H))
    ELSE [g.heap EXCEPT ![g.sc].utf8 = utf8]

\* archive_mstring_clean(aes)
archive_mstring_clean(AES) ==
    [aes_wcs |-> archive_string_free(AES.aes_wcs),
     aes_mbs |-> archive_string_free(AES.aes_mbs),
     aes_utf8 |-> archive_string_free(AES.aes_utf8),
     aes_mbs_in_locale |-> archive_string_free(AES.aes_mbs_in_locale),
     aes_set |-> {}]

\* a get_utf8 that asks the session for the conversion object before it looks
\* at the mask
get_utf8_requesting_first(A, H, AES, isnull, iconv_, cs, oom, junk) ==
    With([g \in {archive_string_conversion_to_charset(A, H, isnull, "UTF-8", TRUE,
                                                      iconv_, cs, FALSE)} |->
        Returned(g.a, IF isnull THEN H ELSE g.heap, AES, 0, FormPtr(AES, "aes_utf8"))])

\* archive_mstring_get_utf8(a, aes, &p)
archive_mstring_get_utf8(A, H, AES, isnull, iconv_, cs, oom, junk) ==
    IF "AES_SET_UTF8" \in AES.aes_set
    THEN Returned(A, H, AES, 0, FormPtr(AES, "aes_utf8"))
    ELSE IF "AES_SET_MBS" \in AES.aes_set
    THEN
    With([g \in {archive_string_conversion_to_charset(A, H, isnull, "UTF-8", TRUE,
                                                      iconv_, cs, oom)} |->
        IF g.sc = NULL THEN Returned(g.a, g.heap, AES, -1, "NULL")
        ELSE
        With([c \in {archive_strncpy_in_locale(AES.aes_mbs, AliasPtr(0),
                         AES.aes_mbs.length, <<g.heap[g.sc]>>, iconv_, cs, junk)} |->
        With([H1 \in {AfterUse(H, g, isnull, c.utf8)} |->
        With([E1 \in {[AES EXCEPT !.aes_mbs = c.as]} |->
            IF c.r = 0
            THEN With([E2 \in {[E1 EXCEPT !.aes_set = @ \cup {"AES_SET_UTF8"}]} |->
                     Returned(g.a, H1, E2, 0, FormPtr(E2, "aes_utf8"))])
            ELSE Returned(g.a, H1, E1, -1, "NULL")])])])])
    ELSE Returned(A, H, AES, 0, "NULL")

\* archive_mstring_get_mbs(a, aes, &p)
archive_mstring_get_mbs(A, H, AES, isnull, iconv_, cs, oom, junk) ==
    IF "AES_SET_MBS" \in AES.aes_set
    THEN Returned(A, H, AES, 0, FormPtr(AES, "aes_mbs"))
    ELSE IF "AES_SET_WCS" \in AES.aes_set /\ NullStore(AES.aes_mbs, AES.aes_wcs.length)
    THEN Faulted(A, H, AES)
    ELSE
    \* "If there's a WCS form, try converting with the native locale": m is
    \* [aes, done, ret, p] after that block
    With([m \in {IF "AES_SET_WCS" \in AES.aes_set
                 THEN
                 With([w \in {archive_string_append_from_wcs(
                                 archive_string_empty(AES.aes_mbs), Text(AES.aes_wcs),
                                 AES.aes_wcs.length, cs)} |->
                 With([E1 \in {[AES EXCEPT !.aes_mbs = w.as]} |->
                     [aes |-> E1, done |-> w.r = 0, ret |-> -1,
                      p |-> FormPtr(E1, "aes_mbs")]])])
                 ELSE [aes |-> AES, done |-> FALSE, ret |-> 0, p |-> "NULL"]} |->
        IF m.done
        THEN Returned(A, H, [m.aes EXCEPT !.aes_set = @ \cup {"AES_SET_MBS"}], 0, m.p)
        ELSE IF "AES_SET_UTF8" \in AES.aes_set
        THEN
        \* "If there's a UTF-8 form, try converting with the native locale"
        With([g \in {archive_string_conversion_from_charset(A, H, isnull, "UTF-8", TRUE,
                                                            iconv_, cs, oom)} |->
            IF g.sc = NULL THEN Returned(g.a, g.heap, m.aes, -1, m.p)
            ELSE
            With([c \in {archive_strncpy_in_locale(m.aes.aes_mbs, Ptr(m.aes.aes_utf8.s),
                             m.aes.aes_utf8.length, <<g.heap[g.sc]>>,
                             iconv_, cs, junk)} |->
            With([H1 \in {AfterUse(H, g, isnull, c.utf8)} |->
            With([E2 \in {[m.aes EXCEPT !.aes_mbs = c.as]} |->
                IF c.r = 0
                THEN With([E3 \in {[E2 EXCEPT !.aes_set = @ \cup {"AES_SET_UTF8"}]} |->
                         Returned(g.a, H1, E3, 0, FormPtr(E3, "aes_utf8"))])
                ELSE Returned(g.a, H1, E2, -1, FormPtr(E2, "aes_utf8"))])])])])
        ELSE Returned(A, H, m.aes, m.ret, m.p)])

\* archive_mstring_get_wcs(a, aes, &wp)
archive_mstring_get_wcs(A, H, AES, cs) ==
    IF "AES_SET_WCS" \in AES.aes_set
    THEN Returned(A, H, AES, 0, FormPtr(AES, "aes_wcs"))
    ELSE IF "AES_SET_MBS" \in AES.aes_set
    THEN
    With([c \in {archive_wstring_append_from_mbs(archive_string_empty(AES.aes_wcs),
                     Ptr(AES.aes_mbs.s), AES.aes_mbs.length, cs)} |->
    With([E1 \in {[AES EXCEPT !.aes_wcs = c.as]} |->
        IF c.r = 0
        THEN With([E2 \in {[E1 EXCEPT !.aes_set = @ \cup {"AES_SET_WCS"}]} |->
                 Returned(A, H, E2, 0, FormPtr(E2, "aes_wcs"))])
        ELSE Returned(A, H, E1, -1, "NULL")])])
    ELSE Returned(A, H, AES, 0, "NULL")

\* archive_mstring_get_mbs_l(aes, &p, &length, sc); sc is 0 for NULL
archive_mstring_get_mbs_l(A, H, AES, sc, iconv_, cs, junk) ==
    With([fromwcs \in {"AES_SET_MBS" \notin AES.aes_set
                          /\ "AES_SET_WCS" \in AES.aes_set} |->
        IF fromwcs /\ NullStore(AES.aes_mbs, AES.aes_wcs.length)
        THEN Faulted(A, H, AES)
        ELSE
        \* "If there is not an MBS form but is a WCS form, try converting with
        \* the native locale": m is [aes, ret] after that block
        With([m \in {IF fromwcs
                     THEN
                     With([w \in {archive_string_append_from_wcs(
                                     archive_string_empty(AES.aes_mbs), Text(AES.aes_wcs),
                                     AES.aes_wcs.length, cs)} |->
                         IF w.r = 0
                         THEN [aes |-> [AES EXCEPT !.aes_mbs = w.as,
                                                   !.aes_set = @ \cup {"AES_SET_MBS"}],
                               ret |-> 0]
                         ELSE [aes |-> [AES EXCEPT !.aes_mbs = w.as], ret |-> -1]])
                     ELSE [aes |-> AES, ret |-> 0]} |->
            IF "AES_SET_MBS" \in m.aes.aes_set
            THEN IF sc = NULL
                 THEN Returned(A, H, m.aes, 0, FormPtr(m.aes, "aes_mbs"))
                 ELSE
                 With([c \in {archive_strncpy_in_locale(m.aes.aes_mbs_in_locale,
                                  Ptr(m.aes.aes_mbs.s), m.aes.aes_mbs.length, <<H[sc]>>,
                                  iconv_, cs, junk)} |->
                 With([E2 \in {[m.aes EXCEPT !.aes_mbs_in_locale = c.as]} |->
                     Returned(A, [H EXCEPT ![sc].utf8 = c.utf8], E2, c.r,
                              FormPtr(E2, "aes_mbs_in_locale"))])])
            ELSE Returned(A, H, m.aes, m.ret, "NULL")])])

\* a caller's NUL-terminated array holding the string str
CArray(str) == Ptr(str \o <<0>>)

\* strlen / wcslen of a caller's string
strlen(str) == Len(CStr(str \o <<0>>))

\* a copy_mbs_len that only marks the other forms invalid, keeping their
\* storage as it is
copy_mbs_len_keeping_storage(AES, null, mbs, len) ==
    IF null THEN [AES EXCEPT !.aes_set = {}]
    ELSE [AES EXCEPT !.aes_set = {"AES_SET_MBS"},
                     !.aes_mbs = archive_strncpy(@, CArray(mbs), len)]

\* archive_mstring_copy_mbs_len(aes, mbs, len); null is "mbs == NULL"
archive_mstring_copy_mbs_len(AES, null, mbs, len) ==
    IF null THEN [AES EXCEPT !.aes_set = {}]
    ELSE [AES EXCEPT !.aes_set = {"AES_SET_MBS"},
                     !.aes_mbs = archive_strncpy(@, CArray(mbs), len),
                     !.aes_utf8 = archive_string_empty(@),
                     !.aes_wcs = archive_string_empty(@)]

\* archive_mstring_copy_mbs(aes, mbs)
archive_mstring_copy_mbs(AES, null, mbs) ==
    IF null THEN [AES EXCEPT !.aes_set = {}]
    ELSE archive_mstring_copy_mbs_len(AES, null, mbs, strlen(mbs))

\* archive_mstring_copy_wcs_len(aes, wcs, len): for wcs == NULL the function
\* goes on after "aes->aes_set = 0"; archive_wstrncpy then reads nothing when
\* len is 0 and dereferences NULL otherwise
archive_mstring_copy_wcs_len(AES, null, wcs, len) ==
    [AES EXCEPT !.aes_set = {"AES_SET_WCS"},
                !.aes_mbs = archive_string_empty(@),
                !.aes_utf8 = archive_string_empty(@),
                !.aes_wcs = archive_wstrncpy(@, IF null THEN Ptr(<<>>) ELSE CArray(wcs),
                                             len)]

\* archive_mstring_copy_wcs(aes, wcs)
archive_mstring_copy_wcs(AES, null, wcs) ==
    archive_mstring_copy_wcs_len(AES, null, wcs, IF null THEN 0 ELSE strlen(wcs))

\* archive_mstring_copy_mbs_len_l(aes, mbs, len, sc): [heap, aes, ret]
archive_mstring_copy_mbs_len_l(H, AES, null, mbs, len, sc, iconv_, cs, junk) ==
    IF null THEN [heap |-> H, aes |-> [AES EXCEPT !.aes_set = {}], ret |-> 0]
    ELSE
    With([E0 \in {[AES EXCEPT !.aes_mbs = archive_string_empty(@),
                              !.aes_wcs = archive_string_empty(@),
                              !.aes_utf8 = archive_string_empty(@)]} |->
    With([c \in {archive_strncpy_in_locale(E0.aes_mbs, CArray(mbs), len,
                     IF sc = NULL THEN <<>> ELSE <<H[sc]>>, iconv_, cs, junk)} |->
        [heap |-> IF sc = NULL THEN H ELSE [H EXCEPT ![sc].utf8 = c.utf8],
         aes |-> [E0 EXCEPT !.aes_mbs = c.as,
                            !.aes_set = IF c.r = 0 THEN {"AES_SET_MBS"} ELSE {}],
         ret |-> c.r]])])

\* an update_utf8 that marks the locale form valid before it looks at the
\* result of the conversion
update_utf8_marking_mbs_early(A, H, AES, isnull, null, utf8, iconv_, cs, oom, junk) ==
    IF null
    THEN [a |-> A, heap |-> H, aes |-> [AES EXCEPT !.aes_set = {}], ret |-> 0,
          conv |-> <<>>]
    ELSE
    With([E0 \in {[AES EXCEPT !.aes_utf8 = archive_strcpy(@, CArray(utf8)),
                              !.aes_mbs = archive_string_empty(@),
                              !.aes_wcs = archive_string_empty(@),
                              !.aes_set = {"AES_SET_UTF8"}]} |->
    With([g \in {archive_string_conversion_from_charset(A, H, isnull, "UTF-8", TRUE,
                                                        iconv_, cs, oom)} |->
        IF g.sc = NULL
        THEN [a |-> g.a, heap |-> g.heap, aes |-> E0, ret |-> -1, conv |-> <<>>]
        ELSE
        With([c \in {archive_strcpy_in_locale(E0.aes_mbs, CArray(utf8),
                         <<g.heap[g.sc]>>, iconv_, cs, junk)} |->
            [a |-> g.a, heap |-> AfterUse(H, g, isnull, c.utf8),
             aes |-> [E0 EXCEPT !.aes_mbs = c.as,
                                !.aes_set = {"AES_SET_UTF8", "AES_SET_MBS"}],
             ret |-> -1, conv |-> <<c.r>>]])])])

\* archive_mstring_update_utf8(a, aes, utf8): [a, heap, aes, ret, conv], conv
\* being the values returned by the conversions made, in order
archive_mstring_update_utf8(A, H, AES, isnull, null, utf8, iconv_, cs, oom, junk) ==
    IF null
    THEN [a |-> A, heap |-> H, aes |-> [AES EXCEPT !.aes_set = {}], ret |-> 0,
          conv |-> <<>>]
    ELSE
    With([E0 \in {[AES EXCEPT !.aes_utf8 = archive_strcpy(@, CArray(utf8)),
                              !.aes_mbs = archive_string_empty(@),
                              !.aes_wcs = archive_string_empty(@),
                              !.aes_set = {"AES_SET_UTF8"}]} |->
    With([g \in {archive_string_conversion_from_charset(A, H, isnull, "UTF-8", TRUE,
                                                        iconv_, cs, oom)} |->
        IF g.sc = NULL
        THEN [a |-> g.a, heap |-> g.heap, aes |-> E0, ret |-> -1, conv |-> <<>>]
        ELSE
        With([c \in {archive_strcpy_in_locale(E0.aes_mbs, CArray(utf8),
                         <<g.heap[g.sc]>>, iconv_, cs, junk)} |->
        With([H1 \in {AfterUse(H, g, isnull, c.utf8)} |->
        With([E1 \in {[E0 EXCEPT !.aes_mbs = c.as]} |->
            IF c.r # 0
            THEN [a |-> g.a, heap |-> H1, aes |-> E1, ret |-> -1, conv |-> <<c.r>>]
            ELSE
            With([E2 \in {[E1 EXCEPT !.aes_set = {"AES_SET_UTF8", "AES_SET_MBS"}]} |->
            With([w \in {archive_wstring_append_from_mbs(E2.aes_wcs, Ptr(E2.aes_mbs.s),
                             E2.aes_utf8.length, cs)} |->
            With([E3 \in {[E2 EXCEPT !.aes_wcs = w.as]} |->
                IF w.r # 0
                THEN [a |-> g.a, heap |-> H1, aes |-> E3, ret |-> -1,
                      conv |-> <<c.r, w.r>>]
                ELSE [a |-> g.a, heap |-> H1,
                      aes |-> [E3 EXCEPT !.aes_set = {"AES_SET_UTF8", "AES_SET_WCS",
                                                     "AES_SET_MBS"}],
                      ret |-> 0, conv |-> <<c.r, w.r>>]])])])])])])])])

(***************************************************************************)
(* The state machine: one action per exported operation.                   *)
(***************************************************************************)
\* struct archive_mstring after construction (zeroed)
MstringInit ==
    [aes_mbs |-> archive_string_init, aes_utf8 |-> archive_string_init,
     aes_wcs |-> archive_string_init, aes_mbs_in_locale |-> archive_string_init,
     aes_set |-> {}]

\* struct archive after construction: no conversion object, no current_code
ArchiveInit ==
    [sconv |-> <<>>, current_code |-> "", current_codepage |-> "unknown",
     archive_error_number |-> "0"]

\* no conversion call is in progress
Idle == [pc |-> "idle"]

Init ==
    /\ have_iconv \in BOOLEAN
    /\ codeset \in LocaleCodesets
    /\ a = ArchiveInit
    /\ heap = <<>>
    /\ aes = MstringInit
    /\ last = [op |-> "init"]
    /\ nops = 0
    /\ sbuf = archive_string_init
    /\ wbuf = archive_string_init
    /\ call = Idle

\* the record of a request for a conversion object and of its answer
Request(op, charset, best_effort, g) ==
    [op |-> op, charset |-> charset, best_effort |-> best_effort, ret |-> g.sc]

\* archive_string_conversion_to_charset(a, charset, best_effort) on the session
ConversionToCharset ==
    \E charset \in Charsets, best_effort \in BOOLEAN, oom \in BOOLEAN :
        \E g \in {archive_string_conversion_to_charset(
                     a, heap, FALSE, charset, best_effort, have_iconv, codeset, oom)} :
           /\ Len(g.heap) <= MaxObjs
           /\ a' = g.a
           /\ heap' = g.heap
           /\ last' = Request("to_charset", charset, best_effort, g)
           /\ UNCHANGED <<call, sbuf, wbuf, have_iconv, codeset, aes, nops>>

\* archive_string_conversion_from_charset(a, charset, best_effort) on the session
ConversionFromCharset ==
    \E charset \in Charsets, best_effort \in BOOLEAN, oom \in BOOLEAN :
        \E g \in {archive_string_conversion_from_charset(
                     a, heap, FALSE, charset, best_effort, have_iconv, codeset, oom)} :
           /\ Len(g.heap) <= MaxObjs
           /\ a' = g.a
           /\ heap' = g.heap
           /\ last' = Request("from_charset", charset, best_effort, g)
           /\ UNCHANGED <<call, sbuf, wbuf, have_iconv, codeset, aes, nops>>

\* archive_string_conversion_free(a)
ConversionFree ==
    \E g \in {archive_string_conversion_free(a, heap)} :
       /\ a' = g.a
       /\ heap' = g.heap
       /\ last' = [op |-> "conversion_free"]
       /\ UNCHANGED <<call, sbuf, wbuf, have_iconv, codeset, aes, nops>>

\* a session used only through the conversion-object interface
NextConv ==
    \/ ConversionToCharset
    \/ ConversionFromCharset
    \/ ConversionFree

SpecConv == Init /\ [][NextConv]_vars

(***************************************************************************)
(* An entry's string used through the multistring interface.  The strings  *)
(* callers pass are drawn from small sets; Junk holds the values an        *)
(* indeterminate uint32_t may have.                                        *)
(***************************************************************************)
\* "hello"; e-acute and '!' in ISO-8859-1, which is no valid UTF-8
MbsInputs == {<<104, 101, 108, 108, 111>>, <<233, 33>>}

\* e + combining acute; the euro sign (not in ISO-8859-1); a lone byte that
\* is no UTF-8; a lone low surrogate U+DC00 written as three bytes; the pound
\* sign U+00A3 (four bytes in GB18030)
Utf8Inputs == {<<101, 204, 129>>, <<226, 130, 172>>, <<233>>, <<237, 176, 128>>,
               <<194, 163>>}

\* the euro sign
WcsInputs == {<<8364>>}

Junk == {0, 55296}

\* the process is still running (no store through a NULL pointer happened)
\* and the run has calls left
Running == last.op # "SIGSEGV" /\ nops < MaxOps

\* what a multistring call returned: its value and the pointer it stored
Answer(op, r) ==
    IF r.fault THEN [op |-> "SIGSEGV", null |-> FALSE]
    ELSE [op |-> op, ret |-> r.ret, p |-> r.p]

MstringClean ==
    /\ Running
    /\ aes' = archive_mstring_clean(aes)
    /\ last' = [op |-> "clean"]
    /\ nops' = nops + 1
    /\ UNCHANGED <<call, sbuf, wbuf, have_iconv, codeset, a, heap>>

CopyMbs ==
    /\ Running
    /\ \/ /\ aes' = archive_mstring_copy_mbs(aes, TRUE, <<>>)
          /\ last' = [op |-> "copy_mbs", ret |-> 0, null |-> TRUE, arg |-> <<>>]
       \/ \E mbs \in MbsInputs :
             /\ aes' = archive_mstring_copy_mbs(aes, FALSE, mbs)
             /\ last' = [op |-> "copy_mbs", ret |-> 0, null |-> FALSE, arg |-> mbs]
    /\ nops' = nops + 1
    /\ UNCHANGED <<call, sbuf, wbuf, have_iconv, codeset, a, heap>>

CopyMbsLen ==
    /\ Running
    /\ \E mbs \in MbsInputs, len \in {1} :
          \/ /\ aes' = archive_mstring_copy_mbs_len(aes, TRUE, <<>>, len)
             /\ last' = [op |-> "copy_mbs", ret |-> 0, null |-> TRUE, arg |-> <<>>]
          \/ /\ aes' = archive_mstring_copy_mbs_len(aes, FALSE, mbs, len)
             /\ last' = [op |-> "copy_mbs", ret |-> 0, null |-> FALSE,
                         arg |-> Take(mbs, len)]
    /\ nops' = nops + 1
    /\ UNCHANGED <<call, sbuf, wbuf, have_iconv, codeset, a, heap>>

CopyWcs ==
    /\ Running
    /\ \/ /\ aes' = archive_mstring_copy_wcs(aes, TRUE, <<>>)
          /\ last' = [op |-> "copy_wcs", ret |-> 0, null |-> TRUE, arg |-> <<>>]
       \/ \E wcs \in WcsInputs :
             /\ aes' = archive_mstring_copy_wcs(aes, FALSE, wcs)
             /\ last' = [op |-> "copy_wcs", ret |-> 0, null |-> FALSE, arg |-> wcs]
    /\ nops' = nops + 1
    /\ UNCHANGED <<call, sbuf, wbuf, have_iconv, codeset, a, heap>>

\* archive_mstring_copy_wcs_len called directly with a length above 0: with
\* wcs == NULL the strnlen-like loop of archive_wstrncat reads wcs[0], at
\* address 0; the process is stopped, or the read gives some value
CopyWcsLen ==
    /\ Running
    /\ \E wcs \in WcsInputs, len \in {1} :
          \/ /\ aes' = archive_mstring_copy_wcs_len(aes, FALSE, wcs, len)
             /\ last' = [op |-> "copy_wcs", ret |-> 0, null |-> FALSE,
                         arg |-> Take(wcs, len)]
          \/ /\ aes' = archive_mstring_copy_wcs_len(aes, TRUE, <<>>, 0)
             /\ last' = [op |-> "SIGSEGV", null |-> TRUE]
          \/ \E junk \in Junk :
                /\ aes' = archive_mstring_copy_wcs_len(aes, FALSE, <<junk>>, len)
                /\ last' = [op |-> "copy_wcs", ret |-> 0, null |-> TRUE, arg |-> <<>>]
    /\ nops' = nops + 1
    /\ UNCHANGED <<call, sbuf, wbuf, have_iconv, codeset, a, heap>>

CopyMbsLenL ==
    /\ Running
    /\ \E null \in BOOLEAN, mbs \in MbsInputs, sc \in {NULL} \cup Registered(a),
          junk \in Junk :
          \E r \in {archive_mstring_copy_mbs_len_l(heap, aes, null, mbs, Len(mbs), sc,
                                                  have_iconv, codeset, junk)} :
             /\ heap' = r.heap
             /\ aes' = r.aes
             /\ last' = [op |-> "copy_mbs_len_l", ret |-> r.ret, null |-> null,
                         arg |-> IF null THEN <<>> ELSE mbs]
    /\ nops' = nops + 1
    /\ UNCHANGED <<call, sbuf, wbuf, have_iconv, codeset, a>>

UpdateUtf8 ==
    /\ Running
    /\ \/ \E r \in {archive_mstring_update_utf8(a, heap, aes, FALSE, TRUE, <<>>,
                                                have_iconv, codeset, FALSE, 0)} :
             /\ a' = r.a
             /\ heap' = r.heap
             /\ aes' = r.aes
             /\ last' = [op |-> "update_utf8", ret |-> r.ret, null |-> TRUE,
                         arg |-> <<>>, conv |-> r.conv]
       \/ \E isnull \in BOOLEAN, utf8 \in Utf8Inputs, oom \in BOOLEAN, junk \in Junk :
             \E r \in {archive_mstring_update_utf8(a, heap, aes, isnull, FALSE, utf8,
                                                   have_iconv, codeset, oom, junk)} :
                /\ Len(r.heap) <= MaxObjs
                /\ a' = r.a
                /\ heap' = r.heap
                /\ aes' = r.aes
                /\ last' = [op |-> "update_utf8", ret |-> r.ret, null |-> FALSE,
                            arg |-> utf8, conv |-> r.conv]
    /\ nops' = nops + 1
    /\ UNCHANGED <<call, sbuf, wbuf, have_iconv, codeset>>

GetUtf8 ==
    /\ Running
    /\ \E isnull \in BOOLEAN, oom \in BOOLEAN, junk \in Junk :
          \E r \in {archive_mstring_get_utf8(a, heap, aes, isnull, have_iconv, codeset,
                                            oom, junk)} :
             /\ Len(r.heap) <= MaxObjs
             /\ a' = r.a
             /\ heap' = r.heap
             /\ aes' = r.aes
             /\ last' = Answer("get_utf8", r)
    /\ nops' = nops + 1
    /\ UNCHANGED <<call, sbuf, wbuf, have_iconv, codeset>>

GetMbs ==
    /\ Running
    /\ \E isnull \in BOOLEAN, oom \in BOOLEAN, junk \in Junk :
          \E r \in {archive_mstring_get_mbs(a, heap, aes, isnull, have_iconv, codeset,
                                           oom, junk)} :
             /\ Len(r.heap) <= MaxObjs
             /\ a' = r.a
             /\ heap' = r.heap
             /\ aes' = r.aes
             /\ last' = Answer("get_mbs", r)
    /\ nops' = nops + 1
    /\ UNCHANGED <<call, sbuf, wbuf, have_iconv, codeset>>

GetWcs ==
    /\ Running
    /\ \E r \in {archive_mstring_get_wcs(a, heap, aes, codeset)} :
          /\ aes' = r.aes
          /\ last' = Answer("get_wcs", r)
    /\ nops' = nops + 1
    /\ UNCHANGED <<call, sbuf, wbuf, have_iconv, codeset, a, heap>>

GetMbsL ==
    /\ Running
    /\ \E sc \in {NULL} \cup Registered(a), junk \in Junk :
          \E r \in {archive_mstring_get_mbs_l(a, heap, aes, sc, have_iconv, codeset, junk)} :
             /\ heap' = r.heap
             /\ aes' = r.aes
             /\ last' = Answer("get_mbs_l", r)
    /\ nops' = nops + 1
    /\ UNCHANGED <<call, sbuf, wbuf, have_iconv, codeset, a>>

\* archive_string_conversion_free(a) at the end of the session's use
Teardown ==
    /\ Running
    /\ \E g \in {archive_string_conversion_free(a, heap)} :
          /\ a' = g.a
          /\ heap' = g.heap
          /\ last' = [op |-> "conversion_free"]
    /\ nops' = nops + 1
    /\ UNCHANGED <<call, sbuf, wbuf, have_iconv, codeset, aes>>

Next ==
    \/ MstringClean
    \/ CopyMbs
    \/ CopyMbsLen
    \/ CopyWcs
    \/ CopyWcsLen
    \/ CopyMbsLenL
    \/ UpdateUtf8
    \/ GetUtf8
    \/ GetMbs
    \/ GetWcs
    \/ GetMbsL
    \/ Teardown

Spec == Init /\ [][Next]_vars

(***************************************************************************)
(* A byte buffer and a wide buffer used directly through the exported      *)
(* buffer functions.  A source array holds exactly the cells the caller    *)
(* owns: a read beyond them shows as Uninit.                               *)
(***************************************************************************)
\* the text held so far may not exceed this many elements
MaxLen == 40

\* the strings callers pass: one has a NUL inside, one is longer than the
\* first allocation
StrInputs == {<<>>, <<97>>, <<98, 99>>, <<100, 0, 101>>, Rep(120, 33)}

\* the sizes callers ask archive_string_ensure for
EnsureSizes == {0, 16, 40, 8192, 8200, 2 ^ SizeBits - 2, 2 ^ SizeBits - 1}

\* the element counts callers ask archive_wstring_ensure for
WideEnsureSizes == {1, 10, 2 ^ (SizeBits - 2), 2 ^ (SizeBits - 2) + 1}

\* archive_string_ensure(&sbuf, s); ret is "the pointer returned is not NULL"
StringEnsure ==
    /\ Running
    /\ \E s \in EnsureSizes :
          /\ sbuf' = archive_string_ensure(sbuf, s)
          /\ last' = [op |-> "string_ensure", s |-> s, ret |-> sbuf'.alloc]
    /\ nops' = nops + 1
    /\ UNCHANGED <<call, wbuf, have_iconv, codeset, a, heap, aes>>

\* archive_wstring_ensure(&wbuf, s)
WstringEnsure ==
    /\ Running
    /\ \E s \in WideEnsureSizes :
          /\ wbuf' = archive_wstring_ensure(wbuf, s)
          /\ last' = [op |-> "wstring_ensure", s |-> s, ret |-> wbuf'.alloc]
    /\ nops' = nops + 1
    /\ UNCHANGED <<call, sbuf, have_iconv, codeset, a, heap, aes>>

\* archive_strncat(&sbuf, p, n), p an array of n elements
Strncat ==
    /\ Running
    /\ \E str \in StrInputs, n \in {0, 2, 3} :
          /\ n <= Len(str)
          /\ sbuf.length + n <= MaxLen
          /\ sbuf' = archive_strncat(sbuf, Ptr(Take(str, n)), n)
          /\ last' = [op |-> "strncat", p |-> Take(str, n), n |-> n]
    /\ nops' = nops + 1
    /\ UNCHANGED <<call, wbuf, have_iconv, codeset, a, heap, aes>>

\* archive_wstrncat(&wbuf, p, n), p an array of n elements
Wstrncat ==
    /\ Running
    /\ \E str \in StrInputs, n \in {0, 2, 3} :
          /\ n <= Len(str)
          /\ wbuf.length + n <= MaxLen
          /\ wbuf' = archive_wstrncat(wbuf, Ptr(Take(str, n)), n)
          /\ last' = [op |-> "wstrncat", p |-> Take(str, n), n |-> n]
    /\ nops' = nops + 1
    /\ UNCHANGED <<call, sbuf, have_iconv, codeset, a, heap, aes>>

\* archive_strcat(&sbuf, p), p a NUL-terminated array
Strcat ==
    /\ Running
    /\ \E str \in StrInputs :
          /\ sbuf.length + Len(str) <= MaxLen
          /\ sbuf' = archive_strcat(sbuf, CArray(str))
          /\ last' = [op |-> "strcat", p |-> str \o <<0>>, n |-> StrcatLimit]
    /\ nops' = nops + 1
    /\ UNCHANGED <<call, wbuf, have_iconv, codeset, a, heap, aes>>

\* archive_strappend_char(&sbuf, c)
StrappendChar ==
    /\ Running
    /\ \E c \in {0, 97} :
          /\ sbuf.length + 1 <= MaxLen
          /\ sbuf' = archive_strappend_char(sbuf, c)
          /\ last' = [op |-> "strappend_char", p |-> <<c>>, n |-> 1]
    /\ nops' = nops + 1
    /\ UNCHANGED <<call, wbuf, have_iconv, codeset, a, heap, aes>>

\* archive_string_concat(&sbuf, &src), src another string holding str
StringConcat ==
    /\ Running
    /\ \E str \in StrInputs :
          /\ sbuf.length + Len(str) <= MaxLen
          /\ sbuf' = archive_string_concat(sbuf,
                         archive_string_append(archive_string_init, Ptr(str), Len(str)))
          /\ last' = [op |-> "string_concat", p |-> str, n |-> Len(str)]
    /\ nops' = nops + 1
    /\ UNCHANGED <<call, wbuf, have_iconv, codeset, a, heap, aes>>

\* archive_string_free(&sbuf)
StringFree ==
    /\ Running
    /\ sbuf' = archive_string_free(sbuf)
    /\ last' = [op |-> "string_free"]
    /\ nops' = nops + 1
    /\ UNCHANGED <<call, wbuf, have_iconv, codeset, a, heap, aes>>

NextStr ==
    \/ StringEnsure
    \/ WstringEnsure
    \/ Strncat
    \/ Wstrncat
    \/ Strcat
    \/ StrappendChar
    \/ StringConcat
    \/ StringFree

SpecStr == Init /\ [][NextStr]_vars

(***************************************************************************)
(* The UTF-8 decoder and encoder as pure functions: a byte array of n      *)
(* cells is decoded by _utf8_to_unicode(&wc, b, n) and the code point left *)
(* in wc is encoded by unicode_to_utf8.                                    *)
(***************************************************************************)
\* the longest byte array decoded
MaxSeq == 4

\* bytes at the edges of the ranges the decoder tells apart
CodecBytes == {0, 65, 128, 143, 144, 160, 191, 192, 194, 224, 237, 240, 244, 245}

\* arrays of two three-byte sequences: a high surrogate (U+D800) followed by
\* a low one (U+DFC0, U+DC00), by another high one, by U+20AC, by too few
\* bytes; a low surrogate first
SurrogateInputs ==
    {<<237, 160, 128, 237, 191, 128>>, <<237, 160, 128, 237, 176, 128>>,
     <<237, 160, 128, 237, 160, 128>>, <<237, 160, 128, 226, 130, 172>>,
     <<237, 160, 128, 237, 191>>, <<237, 191, 128, 237, 160, 128>>}

CodecInputs == UNION {[1..k -> CodecBytes] : k \in 0..MaxSeq} \cup SurrogateInputs

InitCodec ==
    /\ have_iconv = FALSE
    /\ codeset = "UTF-8"
    /\ a = ArchiveInit
    /\ heap = <<>>
    /\ aes = MstringInit
    /\ nops = 0
    /\ sbuf = archive_string_init
    /\ wbuf = archive_string_init
    /\ call = Idle
    /\ last \in {[op |-> "bytes", b |-> b] : b \in CodecInputs}

\* n = _utf8_to_unicode(&wc, b, Len(b)); wc holds junk before the call
Decode ==
    /\ last.op = "bytes"
    /\ \E junk \in Junk :
          \E r \in {_utf8_to_unicode(Ptr(last.b), <<>>, 0, Len(last.b), junk)} :
             last' = [op |-> "_utf8_to_unicode", b |-> last.b, n |-> r.cnt, wc |-> r.wc]
    /\ UNCHANGED <<call, sbuf, wbuf, have_iconv, codeset, a, heap, aes, nops>>

\* unicode_to_utf8(p, wc) of the code point the decoder left
Encode ==
    /\ last.op = "_utf8_to_unicode"
    /\ last' = [op |-> "unicode_to_utf8", b |-> last.b, n |-> last.n, wc |-> last.wc,
                p |-> unicode_to_utf8(last.wc)]
    /\ UNCHANGED <<call, sbuf, wbuf, have_iconv, codeset, a, heap, aes, nops>>

\* n = utf8_to_unicode(&wc, b, Len(b)); wc holds junk before the call
DecodeStrict ==
    /\ last.op = "bytes"
    /\ \E junk \in Junk, old \in Junk :
          \E r \in {utf8_to_unicode(Ptr(last.b), <<>>, 0, Len(last.b), old, junk)} :
             last' = [op |-> "utf8_to_unicode", b |-> last.b, n |-> r.cnt, wc |-> r.wc,
                      old |-> old]
    /\ UNCHANGED <<call, sbuf, wbuf, have_iconv, codeset, a, heap, aes, nops>>

\* n = cesu8_to_unicode(&wc, b, Len(b)); wc holds junk before the call
DecodeCesu8 ==
    /\ last.op = "bytes"
    /\ \E junk \in Junk, old \in Junk :
          \E r \in {cesu8_to_unicode(Ptr(last.b), <<>>, 0, Len(last.b), old, junk)} :
             last' = [op |-> "cesu8_to_unicode", b |-> last.b, n |-> r.cnt, wc |-> r.wc,
                      old |-> old]
    /\ UNCHANGED <<call, sbuf, wbuf, have_iconv, codeset, a, heap, aes, nops>>

NextCodec ==
    \/ Decode
    \/ Encode
    \/ DecodeStrict
    \/ DecodeCesu8

SpecCodec == InitCodec /\ [][NextCodec]_vars

(***************************************************************************)
(* One call of archive_strncat_in_locale / archive_strncpy_in_locale on    *)
(* the byte buffer, one pass of a conversion loop per step.  The session   *)
(* holds the conversion object one request gave it (or none, the request   *)
(* refused) and the buffer is one a caller may pass.                       *)
(* call.c holds the loop's locals, call.left0 the input length the loop    *)
(* was entered with, call.passes the passes made, call.errno what the last *)
(* call of iconv reported.                                                 *)
(***************************************************************************)
\* the charset names the session's request passes
CallCharsets == {"UTF-8", "ISO-8859-1", "CP1252", "X-UNKNOWN"}

\* the source strings: ASCII, Latin-1, well-formed UTF-8 (one decomposed),
\* an unpaired high surrogate alone, before a valid character and after
\* one, a CESU-8 pair, and CP1252 text that outgrows the first allocation
CallInputs ==
    {<<104, 105>>, <<233>>, <<128>>, <<195, 169>>, <<101, 204, 129>>, <<226, 130, 172>>,
     <<237, 160, 128>>, <<237, 160, 128, 226, 130, 172>>, <<97, 237, 160, 128>>,
     <<237, 160, 129, 237, 176, 128>>, <<129>>, <<128, 129>>, <<129, 104>>,
     <<104, 104, 128>>}

\* the destination before the call: never used, holding "ab", nearly full
\* (28 or 29 bytes in its 32)
Destinations ==
    {archive_string_init,
     archive_strcat(archive_string_init, CArray(<<97, 98>>)),
     archive_strcat(archive_string_init, CArray(Rep(120, 28))),
     archive_strcat(archive_string_init, CArray(Rep(120, 29)))}

InitCall ==
    /\ have_iconv \in BOOLEAN
    /\ codeset \in Codesets
    /\ \E to \in BOOLEAN, charset \in CallCharsets, best_effort \in BOOLEAN :
          \E g \in {IF to
                    THEN archive_string_conversion_to_charset(
                             ArchiveInit, <<>>, FALSE, charset, best_effort,
                             have_iconv, codeset, FALSE)
                    ELSE archive_string_conversion_from_charset(
                             ArchiveInit, <<>>, FALSE, charset, best_effort,
                             have_iconv, codeset, FALSE)} :
             /\ a = g.a
             /\ heap = g.heap
    /\ aes = MstringInit
    /\ last = [op |-> "init"]
    /\ nops = 0
    /\ sbuf \in Destinations
    /\ wbuf = archive_string_init
    /\ call = Idle

\* the routine archive_strncat_in_locale hands the string to
Route(sc, iconv_) ==
    IF sc = <<>> THEN "copy"
    ELSE IF "SCONV_COPY_UTF8_TO_UTF8" \in sc[1].flag
    THEN (IF "SCONV_NORMALIZATION_C" \in sc[1].flag THEN "normalize_C" ELSE "utf8")
    ELSE IF iconv_ /\ sc[1].cd # "-1" THEN "iconv"
    ELSE IF sc[1].same THEN "copy"
    ELSE "best_effort"

\* the object a call in progress converts with
CallSc == <<heap[call.sc]>>

\* "return (return_value)": the buffer is as the routine leaves it
Return(as, r) ==
    /\ sbuf' = as
    /\ last' = [op |-> "strncat_in_locale", src |-> call.str, sc |-> call.sc,
                cpy |-> call.cpy, from |-> call.from, before |-> call.before,
                route |-> call.route,
                passes |-> call.passes, grown |-> call.grown, ret |-> r]
    /\ call' = Idle
    /\ nops' = nops + 1
    /\ UNCHANGED <<wbuf, have_iconv, codeset, a, heap, aes>>

\* a store at as->s[p - 1] or below it lies outside the allocation
OutOfBounds(as, p) == p > as.buffer_length

\* the process is stopped by a store outside the buffer's allocation (one of
\* the outcomes of such a store; the other is that the call goes on)
Abort(as) ==
    /\ sbuf' = as
    /\ last' = [op |-> "abort", src |-> call.str, sc |-> call.sc,
                from |-> call.from, route |-> call.route]
    /\ call' = Idle
    /\ nops' = nops + 1
    /\ UNCHANGED <<wbuf, have_iconv, codeset, a, heap, aes>>

\* archive_strncat_in_locale(&sbuf, str, Len(str), sc), or with cpy
\* archive_strncpy_in_locale: up to the first pass of the loop it enters; a
\* routine without a loop of its own here (the copy, archive_string_normalize_C)
\* runs to its return
StrncatInLocale ==
    /\ call.pc = "idle"
    /\ last.op = "init"
    /\ \E str \in CallInputs, sc \in {NULL} \cup Registered(a), cpy \in BOOLEAN,
          junk \in Junk :
          \E as \in {IF cpy THEN archive_string_empty(sbuf) ELSE sbuf},
             scs \in {IF sc = NULL THEN <<>> ELSE <<heap[sc]>>} :
          \E length \in {la_strnlen(Ptr(str), as.s, Len(str))},
             route \in {Route(scs, have_iconv)} :
          \E rec \in {[pc |-> route, str |-> str, src |-> Ptr(str), sc |-> sc,
                       cpy |-> cpy, from |-> as.length, junk |-> junk,
                       route |-> route, before |-> Text(as), left0 |-> length, passes |-> 0, grown |-> 0,
                       errno |-> "0", c |-> <<>>]} :
             /\ last' = [op |-> "call", src |-> str, sc |-> sc]
             /\ IF route \in {"copy", "normalize_C"}
                THEN \E r \in {archive_strncat_in_locale(
                                  as, Ptr(str), Len(str), scs, have_iconv, codeset,
                                  junk)} :
                        /\ sbuf' = r.as
                        /\ heap' = IF sc = NULL THEN heap
                                   ELSE [heap EXCEPT ![sc].utf8 = r.utf8]
                        /\ call' = [rec EXCEPT !.pc = "return", !.c = [rv |-> r.r]]
                ELSE IF route = "utf8"
                THEN /\ call' = [rec EXCEPT !.c = U8Start(as, length)]
                     /\ UNCHANGED <<sbuf, heap>>
                ELSE IF route = "best_effort"
                THEN /\ call' = [rec EXCEPT !.c = LoopStart(as, length, length, 0)]
                     /\ UNCHANGED <<sbuf, heap>>
                ELSE \E x \in {IconvSource(Ptr(str), length, scs, junk)} :
                        /\ call' = [rec EXCEPT !.src = x.src, !.left0 = x.len,
                                       !.c = LoopStart(as, x.len * 2, x.len, x.rv)]
                        /\ heap' = [heap EXCEPT ![sc].utf8 = x.utf8]
                        /\ UNCHANGED sbuf
    /\ UNCHANGED <<wbuf, have_iconv, codeset, a, aes, nops>>

\* the return of a routine that ran whole
WholeReturn ==
    /\ call.pc = "return"
    /\ Return(sbuf, call.c.rv)

\* one pass of the while loop of archive_strncat_in_locale, or its end
IconvStep ==
    /\ call.pc = "iconv"
    /\ IF call.c.remaining <= 0 THEN Return(call.c.as, call.c.rv)
       ELSE \E i \in {IconvIter(CallSc[1].from_charset, CallSc[1].to_charset,
                                CallSc[1].flag, call.src, call.c)} :
               IF i.brk THEN Return(i.c.as, i.c.rv)
               ELSE /\ call' = [call EXCEPT
                                  !.c = i.c, !.passes = @ + 1, !.errno = i.errno,
                                  !.grown = IF i.c.as.buffer_length
                                                 > call.c.as.buffer_length
                                            THEN @ + 1 ELSE @]
                    /\ UNCHANGED <<sbuf, wbuf, have_iconv, codeset, a, heap, aes,
                                   last, nops>>

\* one pass of the while loop of best_effort_strncat_in_locale, or its end
BestEffortStep ==
    /\ call.pc = "best_effort"
    /\ IF ~BestEffortMore(call.src, call.c)
       THEN \/ Return(Terminate(call.c.as, call.c.outp), call.c.rv)
            \/ /\ OutOfBounds(call.c.as, call.c.outp + 1)
               /\ Abort(Terminate(call.c.as, call.c.outp))
       ELSE \E c \in {BestEffortIter(CallSc[1].flag, call.c,
                                     Rd(call.src, call.c.as.s, call.c.inp))} :
               \/ /\ call' = [call EXCEPT
                                !.c = c, !.passes = @ + 1,
                                !.grown = IF c.as.buffer_length
                                               > call.c.as.buffer_length
                                          THEN @ + 1 ELSE @]
                  /\ UNCHANGED <<sbuf, wbuf, have_iconv, codeset, a, heap, aes, last,
                                 nops>>
               \/ /\ OutOfBounds(c.as, c.outp)
                  /\ Abort(c.as)

\* one pass of the do-while loop of strncat_from_utf8_to_utf8
Utf8Step ==
    /\ call.pc = "utf8"
    /\ \E i \in {U8Iter(call.src, call.c, call.junk)} :
          IF i.brk THEN Return(i.st.as, i.st.ret)
          ELSE /\ call' = [call EXCEPT
                             !.c = i.st, !.passes = @ + 1,
                             !.grown = IF i.st.as.buffer_length
                                            > call.c.as.buffer_length
                                       THEN @ + 1 ELSE @]
               /\ UNCHANGED <<sbuf, wbuf, have_iconv, codeset, a, heap, aes, last,
                              nops>>

LoopStep ==
    \/ IconvStep
    \/ BestEffortStep
    \/ Utf8Step
    \/ WholeReturn

NextCall ==
    \/ StrncatInLocale
    \/ LoopStep

SpecCall == InitCall /\ [][NextCall]_vars

\* a call once entered runs on: the thread making it is never stopped for good
FairSpecCall == SpecCall /\ WF_vars(LoopStep)

(***************************************************************************)
(* Copies between the locale's bytes and UTF-16BE: strncpy_to_utf16be and  *)
(* strncpy_from_utf16be, which archive_strncpy_in_locale calls for an      *)
(* object with SCONV_UTF16BE.  The build with iconv compiles the loops     *)
(* around iconv(), one pass of which is a step here; the build without     *)
(* iconv compiles the byte loops, which run here in a locale other than    *)
(* UTF-8.  The destination is sbuf.                                        *)
(***************************************************************************)
\* UTF-16BE texts: "hi"; e-acute; the euro sign; the euro sign and a lone low
\* surrogate; two euro signs and a lone low surrogate; the pound sign and a
\* lone low surrogate; a high surrogate with nothing after it; the pair of
\* U+10000; "h" followed by one odd byte
Utf16Inputs ==
    {<<0, 104, 0, 105>>, <<0, 233>>, <<32, 172>>, <<32, 172, 220, 0>>,
     <<32, 172, 32, 172, 220, 0>>, <<0, 163, 220, 0>>, <<216, 0>>,
     <<216, 0, 220, 0>>, <<0, 104, 0>>}

\* locale texts: "hi"; one byte above 0x7f; such a byte before and after an
\* ASCII letter; the euro sign in UTF-8 and its first two bytes; the pound
\* sign in GB18030
LocaleInputs ==
    {<<104, 105>>, <<128>>, <<128, 97>>, <<97, 233>>, <<226, 130, 172>>,
     <<226, 130>>, <<129, 48, 132, 53>>}

\* the while loop of strncpy_from_utf16be without iconv, utf16 at offset o of
\* the source: st = [as, mbs, ret]
RECURSIVE FromUtf16beLoop(_, _, _, _)
FromUtf16beLoop(utf16, o, bytes, st) ==
    IF bytes = 0 THEN st
    ELSE
    With([val \in {Rd(utf16, st.as.s, o) * 256 + Rd(utf16, st.as.s, o + 1)} |->
        FromUtf16beLoop(utf16, o + 2, bytes - 2,
            [as |-> [st.as EXCEPT !.s = Poke(@, st.mbs,
                                              <<IF val >= 128 THEN 63 ELSE val>>),
                                  !.length = @ + 1],
             mbs |-> st.mbs + 1,
             ret |-> IF val >= 128 THEN -1 ELSE st.ret])])

\* strncpy_from_utf16be(as, _p, bytes, sc) of the build without iconv, sc
\* without SCONV_TO_UTF8: [as, r]
strncpy_from_utf16be(as, utf16, bytes) ==
    With([e \in {archive_string_ensure(archive_string_empty(as),
                                       (bytes - (bytes % 2)) + 1)} |->
    With([st \in {FromUtf16beLoop(utf16, 0, bytes - (bytes % 2),
                                  [as |-> e, mbs |-> 0, ret |-> 0])} |->
        [as |-> [st.as EXCEPT !.s = Poke(@, st.mbs, <<0>>)], r |-> st.ret]])])

\* the loop "while (remaining--)" of strncpy_to_utf16be without iconv: st =
\* [as, utf16, s, ret], utf16 and s being offsets.  For a byte above 0x7f the
\* body stores FF FD at utf16, then "*utf16 += 2" adds 2 to the byte stored
\* there (0xff becomes 0x01) and neither pointer moves.
RECURSIVE ToUtf16beLoop(_, _, _)
ToUtf16beLoop(src, remaining, st) ==
    IF remaining = 0 THEN st
    ELSE
    With([b \in {Rd(src, st.as.s, st.s)} |->
        ToUtf16beLoop(src, remaining - 1,
            IF b >= 128
            THEN [st EXCEPT !.as.s = Poke(@, st.utf16, <<(255 + 2) % 256, 253>>),
                            !.as.length = @ + 2,
                            !.ret = -1]
            ELSE [st EXCEPT !.as.s = Poke(@, st.utf16, <<0, b>>),
                            !.as.length = @ + 2,
                            !.utf16 = @ + 2,
                            !.s = @ + 1])])

\* strncpy_to_utf16be(a16be, _p, length, sc) of the build without iconv,
\* sc->from_charset not "UTF-8": [as, r]
strncpy_to_utf16be(a16be, src, length) ==
    With([e \in {archive_string_ensure(archive_string_empty(a16be),
                                       SizeT((length + 1) * 2))} |->
    With([st \in {ToUtf16beLoop(src, length,
                                [as |-> e, utf16 |-> 0, s |-> 0, ret |-> 0])} |->
        [as |-> [st.as EXCEPT !.s = Poke(@, st.as.length, <<0, 0>>)],
         r |-> st.ret]])])

\* the locals of the loops around iconv() before the first pass: "outp =
\* as->s; avail = outbase = ..."
Utf16beStart(as, size, room, remaining) ==
    [as |-> archive_string_ensure(archive_string_empty(as), size), inp |-> 0,
     remaining |-> remaining, outp |-> 0, avail |-> room, outbase |-> room,
     rv |-> 0]

\* "E2BIG no output buffer, Increase an output buffer": slack is the room
\* kept for the terminator
Utf16beGrow(c, slack) ==
    With([len \in {SizeT(c.outbase - c.avail)} |->
    With([outbase \in {SizeT(c.outbase * 2)} |->
        [c EXCEPT !.as = archive_string_ensure([c.as EXCEPT !.length = len],
                                               outbase + slack),
                  !.outbase = outbase, !.outp = len,
                  !.avail = SizeT(outbase - len)]])])

\* one pass of the while loop of strncpy_from_utf16be with iconv, the locale
\* being tc; c = [as, inp, remaining, outp, avail, outbase, rv]
FromUtf16beIter(tc, src, c) ==
    With([i \in {iconv("UTF-16BE", tc, src, c)} |->
        IF i.errno = "0"
        THEN [i.c EXCEPT !.as.s = Poke(@, i.c.outp, <<0>>),
                         !.as.length = SizeT(i.c.outbase - i.c.avail)]
        ELSE IF i.errno \in {"EILSEQ", "EINVAL"}
        THEN [i.c EXCEPT !.as.s = Poke(@, i.c.outp, <<63>>), !.outp = @ + 1,
                         !.avail = SizeT(@ - 1), !.inp = @ + 2,
                         !.remaining = SizeT(@ - 2), !.rv = -1]
        ELSE Utf16beGrow(i.c, 1)])

\* one pass of the while loop of strncpy_to_utf16be with iconv, the locale
\* being fc
ToUtf16beIter(fc, src, c) ==
    With([i \in {iconv(fc, "UTF-16BE", src, c)} |->
        IF i.errno = "0"
        THEN [i.c EXCEPT !.as.s = Poke(@, i.c.outp, <<0, 0>>),
                         !.as.length = SizeT(i.c.outbase - i.c.avail)]
        ELSE IF i.errno \in {"EILSEQ", "EINVAL"}
        THEN [i.c EXCEPT !.as.s = Poke(@, i.c.outp, <<255, 253>>), !.outp = @ + 2,
                         !.avail = SizeT(@ - 2), !.inp = @ + 1,
                         !.remaining = SizeT(@ - 1), !.rv = -1]
        ELSE Utf16beGrow(i.c, 2)])

InitUtf16 ==
    /\ have_iconv \in BOOLEAN
    /\ codeset \in LocaleCodesets
    /\ have_iconv \/ codeset # "UTF-8"
    /\ a = ArchiveInit
    /\ heap = <<>>
    /\ aes = MstringInit
    /\ last = [op |-> "init"]
    /\ nops = 0
    /\ sbuf = archive_string_init
    /\ wbuf = archive_string_init
    /\ call = Idle

\* strncpy_to_utf16be(&sbuf, src, length, sc): the whole call without iconv,
\* the entry of the loop with it
StrncpyToUtf16be ==
    /\ call = Idle
    /\ \E src \in LocaleInputs :
          IF have_iconv
          THEN /\ call' = [pc |-> "to_utf16be", src |-> src,
                           c |-> Utf16beStart(sbuf, SizeT((Len(src) + 1) * 2),
                                              SizeT(Len(src) * 2), Len(src))]
               /\ UNCHANGED <<sbuf, last>>
          ELSE \E r \in {strncpy_to_utf16be(sbuf, Ptr(src), Len(src))} :
                  /\ sbuf' = r.as
                  /\ last' = [op |-> "strncpy_to_utf16be", src |-> src, ret |-> r.r]
                  /\ UNCHANGED call
    /\ UNCHANGED <<wbuf, have_iconv, codeset, a, heap, aes, nops>>

\* strncpy_from_utf16be(&sbuf, src, bytes, sc)
StrncpyFromUtf16be ==
    /\ call = Idle
    /\ \E src \in Utf16Inputs :
          IF have_iconv
          THEN /\ call' = [pc |-> "from_utf16be", src |-> src,
                           c |-> Utf16beStart(sbuf, (Len(src) - (Len(src) % 2)) + 1,
                                              Len(src) - (Len(src) % 2),
                                              Len(src) - (Len(src) % 2))]
               /\ UNCHANGED <<sbuf, last>>
          ELSE \E r \in {strncpy_from_utf16be(sbuf, Ptr(src), Len(src))} :
                  /\ sbuf' = r.as
                  /\ last' = [op |-> "strncpy_from_utf16be", src |-> src,
                              ret |-> r.r]
                  /\ UNCHANGED call
    /\ UNCHANGED <<wbuf, have_iconv, codeset, a, heap, aes, nops>>

\* "while (remaining > 0)": one more pass, or "return (return_value)"
Utf16beStep ==
    /\ call.pc \in {"to_utf16be", "from_utf16be"}
    /\ IF call.c.remaining > 0
       THEN /\ call' = [call EXCEPT !.c =
                           IF call.pc = "to_utf16be"
                           THEN ToUtf16beIter(codeset, Ptr(call.src), call.c)
                           ELSE FromUtf16beIter(codeset, Ptr(call.src), call.c)]
            /\ UNCHANGED <<sbuf, last>>
       ELSE /\ sbuf' = call.c.as
            /\ last' = [op |-> "strncpy_" \o call.pc, src |-> call.src,
                        ret |-> call.c.rv]
            /\ call' = Idle
    /\ UNCHANGED <<wbuf, have_iconv, codeset, a, heap, aes, nops>>

NextUtf16 ==
    \/ StrncpyToUtf16be
    \/ StrncpyFromUtf16be
    \/ Utf16beStep

SpecUtf16 == InitUtf16 /\ [][NextUtf16]_vars

(***************************************************************************)
(* Properties of the multistring.                                          *)
(***************************************************************************)
\* the mask bit and the form of each lazy getter
BitOf(op) ==
    IF op = "get_utf8" THEN "AES_SET_UTF8"
    ELSE IF op = "get_mbs" THEN "AES_SET_MBS"
    ELSE "AES_SET_WCS"

FormOf(bit) ==
    IF bit = "AES_SET_UTF8" THEN "aes_utf8"
    ELSE IF bit = "AES_SET_MBS" THEN "aes_mbs"
    ELSE "aes_wcs"

Getters == {"get_utf8", "get_mbs", "get_wcs"}

\* the text a caller reads through the pointer the last call stored
ReturnedText == CStr(aes[last.p].s)

\* C1: when the requested form is not in the mask but another form is, a
\* getter that returns 0 has added exactly the requested form's bit to the
\* mask and returns the derived text through a pointer to that form; after
\* copy_mbs("hello"), get_utf8 returns "hello" with the mask {MBS, UTF8}.
C1_GetDerivesRequestedForm ==
    [][/\ (/\ last'.op \in Getters
           /\ BitOf(last'.op) \notin aes.aes_set
           /\ aes.aes_set # {}
           /\ last'.ret = 0)
          => /\ aes'.aes_set = aes.aes_set \cup {BitOf(last'.op)}
             /\ last'.p = FormOf(BitOf(last'.op))
             /\ ReturnedText' = Text(aes'[FormOf(BitOf(last'.op))])
       /\ (/\ last.op = "copy_mbs"
           /\ last.arg = <<104, 101, 108, 108, 111>>
           /\ last'.op = "get_utf8"
           /\ a'.archive_error_number # "ENOMEM")
          => /\ last'.ret = 0
             /\ last'.p = "aes_utf8"
             /\ ReturnedText' = <<104, 101, 108, 108, 111>>
             /\ aes'.aes_set = {"AES_SET_MBS", "AES_SET_UTF8"}]_vars

AllForms == {"AES_SET_UTF8", "AES_SET_MBS", "AES_SET_WCS"}

\* what holds when archive_mstring_update_utf8 has returned
UpdateOutcome ==
    (last.op = "update_utf8" /\ ~last.null) =>
        /\ "AES_SET_UTF8" \in aes.aes_set
        /\ Text(aes.aes_utf8) = last.arg
        /\ CStr(aes.aes_utf8.s) = last.arg
        /\ last.ret \in {0, -1}
        /\ last.ret = 0 <=> last.conv = <<0, 0>>
        /\ last.ret = 0 => aes.aes_set = AllForms
        /\ (Len(last.conv) < 2 /\ last.conv # <<0>>)
              => last.ret = -1 /\ aes.aes_set = {"AES_SET_UTF8"}
        /\ (Len(last.conv) = 2 /\ last.conv[2] # 0)
              => last.ret = -1 /\ aes.aes_set = {"AES_SET_UTF8", "AES_SET_MBS"}

\* C2: update_utf8 with a non-NULL argument stores the bytes as the UTF-8 form
\* with UTF8 in the mask; it returns 0 iff the conversion to the locale and
\* the conversion to wide characters both succeed, the mask then being {UTF8,
\* MBS, WCS}; when the locale conversion fails it returns -1 with the mask
\* {UTF8}, when only the wide conversion fails -1 with the mask {UTF8, MBS};
\* after a failure a following get_utf8 returns the original bytes.
C2_UpdateUtf8Outcome ==
    [][/\ UpdateOutcome'
       /\ (/\ last.op = "update_utf8"
           /\ ~last.null
           /\ last.ret = -1
           /\ last'.op = "get_utf8")
          => /\ last'.ret = 0
             /\ last'.p = "aes_utf8"
             /\ ReturnedText' = last.arg]_vars

\* update_utf8 has failed in the conversion to wide characters only, and
\* get_utf8 has then been called
C2_Witness ==
    /\ last.op = "get_utf8"
    /\ last.ret = 0
    /\ aes.aes_set = {"AES_SET_UTF8", "AES_SET_MBS"}
    /\ Text(aes.aes_utf8) = <<237, 176, 128>>

\* C3: from any prior state, copy_mbs / copy_mbs_len with a non-NULL source
\* sets the mask to {MBS}, stores the source bytes (up to len or the first
\* NUL) as the locale form and resets the UTF-8 and wide forms to length 0;
\* copy_wcs with a non-NULL source sets the mask to {WCS} and resets the
\* locale and UTF-8 forms; clean releases every buffer and empties the mask,
\* and the object can be written again.
C3_WritesResetOtherForms ==
    [][/\ (last'.op = "copy_mbs" /\ ~last'.null)
          => /\ aes'.aes_set = {"AES_SET_MBS"}
             /\ Text(aes'.aes_mbs) = last'.arg
             /\ CStr(aes'.aes_mbs.s) = last'.arg
             /\ aes'.aes_utf8.length = 0
             /\ aes'.aes_wcs.length = 0
       /\ (last'.op = "copy_wcs" /\ ~last'.null)
          => /\ aes'.aes_set = {"AES_SET_WCS"}
             /\ Text(aes'.aes_wcs) = last'.arg
             /\ aes'.aes_mbs.length = 0
             /\ aes'.aes_utf8.length = 0
       /\ last'.op = "clean"
          => /\ aes'.aes_set = {}
             /\ \A form \in {"aes_mbs", "aes_utf8", "aes_wcs", "aes_mbs_in_locale"} :
                   aes'[form] = archive_string_init
       /\ (last.op = "clean" /\ last'.op = "copy_mbs" /\ ~last'.null)
          => Text(aes'.aes_mbs) = last'.arg]_vars

\* copy_mbs has been called on an object whose UTF-8 and wide forms held text
C3_Witness ==
    /\ last.op = "copy_mbs"
    /\ ~last.null
    /\ aes.aes_utf8.alloc /\ aes.aes_utf8.length = 0 /\ CStr(aes.aes_utf8.s) # <<>>
    /\ aes.aes_wcs.alloc /\ aes.aes_wcs.length = 0 /\ CStr(aes.aes_wcs.s) # <<>>

\* C4: no call of get_utf8, get_mbs, get_wcs or get_mbs_l removes a bit from
\* the mask or changes the length or content of a form that was valid before
\* the call.
C4_GettersKeepValidForms ==
    [][last'.op \in Getters \cup {"get_mbs_l"} =>
          /\ aes.aes_set \subseteq aes'.aes_set
          /\ \A bit \in aes.aes_set :
                /\ aes'[FormOf(bit)].length = aes[FormOf(bit)].length
                /\ Text(aes'[FormOf(bit)]) = Text(aes[FormOf(bit)])]_vars

\* C5: when the requested form's bit is in the mask, a getter returns 0 with
\* the pointer of that stored form and changes neither the multistring nor
\* the session (no conversion object is requested).
C5_ValidFormReturnedDirectly ==
    [][(last'.op \in Getters /\ BitOf(last'.op) \in aes.aes_set) =>
          /\ last'.ret = 0
          /\ last'.p = FormPtr(aes, FormOf(BitOf(last'.op)))
          /\ aes' = aes
          /\ a' = a
          /\ heap' = heap]_vars

\* get_utf8 has returned the UTF-8 form of an object whose only valid form
\* is UTF-8 (left so by a failed update_utf8)
C5_Witness ==
    /\ last.op = "get_utf8"
    /\ last.ret = 0
    /\ last.p = "aes_utf8"
    /\ aes.aes_set = {"AES_SET_UTF8"}

\* C6: when a conversion made by a multistring operation fails softly after
\* producing degraded output, the operation returns failure and the output
\* stays reachable: the written form is in the mask or a non-NULL pointer to
\* it was returned.
C6_DegradedOutputKept ==
    /\ (last.op = "copy_mbs_len_l" /\ last.ret # 0)
          => "AES_SET_MBS" \in aes.aes_set
    /\ (last.op = "update_utf8" /\ Len(last.conv) = 1 /\ last.conv # <<0>>)
          => "AES_SET_MBS" \in aes.aes_set
    /\ (last.op = "get_mbs_l" /\ last.ret # 0) => last.p # "NULL"

(***************************************************************************)
(* Properties of the registry.                                             *)
(***************************************************************************)
IsRequest(l) == l.op \in {"to_charset", "from_charset"}

\* the names a request passes to get_sconv_object (the current charset of a
\* session is the codeset of the locale)
ReqFc(l) == IF l.op = "to_charset" THEN codeset ELSE l.charset

ReqTc(l) == IF l.op = "to_charset" THEN l.charset ELSE codeset

\* the objects of the registry that were created for the pair of names fc, tc
CreatedFor(A, H, fc, tc) ==
    {sc \in Registered(A) : H[sc].req_fc = fc /\ H[sc].to_charset = tc}

\* C7: within one session, once an object has been created and registered for
\* a pair of charset names, every later request for the same pair of names
\* returns that object and leaves the registry list unchanged.
C7_CachedObjectReturned ==
    [][IsRequest(last') =>
        \A sc \in CreatedFor(a, heap, ReqFc(last'), ReqTc(last')) :
            (\A other \in CreatedFor(a, heap, ReqFc(last'), ReqTc(last')) : sc <= other)
                => last'.ret = sc /\ a'.sconv = a.sconv]_vars

\* the platform cannot convert fc to tc: the encodings differ and, in a build
\* with iconv, iconv_open knows no conversion between them
CannotConvert(fc, tc) ==
    LET from == IF fc = "UTF-8-MADE_BY_LIBARCHIVE2" THEN "UTF-8" ELSE fc
    IN from # tc /\ (have_iconv => iconv_open(tc, from) = "-1")

\* C8: a request with best_effort = 0 for a pair of different encodings the
\* platform cannot convert returns NULL, sets the session's last error (to a
\* code other than ENOMEM unless the allocation itself failed) and leaves the
\* registry unchanged, whatever was requested before; with best_effort = 1
\* NULL is returned only when memory allocation fails.
C8_StrictRequestFails ==
    [][IsRequest(last') =>
        /\ (~last'.best_effort /\ CannotConvert(ReqFc(last'), ReqTc(last')))
              => /\ last'.ret = NULL
                 /\ a'.sconv = a.sconv
                 /\ a'.archive_error_number \in {"ARCHIVE_ERRNO_MISC", "ENOMEM"}
        /\ (last'.best_effort /\ last'.ret = NULL)
              => a'.archive_error_number = "ENOMEM"]_vars

\* C9: every object has exactly one of SCONV_TO_CHARSET and SCONV_FROM_CHARSET,
\* and the object a request returns has the direction of the request.
C9_DirectionMatchesRequest ==
    /\ \A sc \in 1..Len(heap) :
          Cardinality(heap[sc].flag \cap {"SCONV_TO_CHARSET", "SCONV_FROM_CHARSET"}) = 1
    /\ (IsRequest(last) /\ last.ret # NULL) =>
          IF last.op = "to_charset"
          THEN "SCONV_TO_CHARSET" \in heap[last.ret].flag
          ELSE "SCONV_FROM_CHARSET" \in heap[last.ret].flag

\* C10: archive_string_conversion_free releases every registered object
\* exactly once (its handle closed iff one is open, its scratch buffer freed)
\* and leaves the registry empty; no other operation releases a registered
\* object; a request made after teardown creates a fresh object.
C10_TeardownReleasesOnce ==
    [][/\ last'.op = "conversion_free"
          => /\ a'.sconv = <<>>
             /\ \A sc \in 1..Len(heap) :
                   IF sc \in Registered(a)
                   THEN /\ heap'[sc].freed = 1
                        /\ heap'[sc].closed = IF heap[sc].cd = "open" THEN 1 ELSE 0
                        /\ heap'[sc].utf8 = archive_string_init
                   ELSE heap'[sc] = heap[sc]
       /\ last'.op # "conversion_free"
          => \A sc \in 1..Len(heap) :
                /\ heap'[sc].freed = heap[sc].freed
                /\ heap'[sc].closed = heap[sc].closed
                /\ sc \in Registered(a) => sc \in Registered(a')
       /\ \A sc \in Registered(a') : heap'[sc].freed = 0 /\ heap'[sc].closed = 0
       /\ (last.op = "conversion_free" /\ Registered(a') # {})
          => Registered(a') = {Len(heap) + 1}]_vars

\* an object was released by teardown and a later request registered a new one
C10_Witness ==
    /\ Registered(a) # {}
    /\ \E sc \in 1..Len(heap) : heap[sc].freed = 1 /\ sc \notin Registered(a)

(***************************************************************************)
(* Properties of the buffers.                                              *)
(***************************************************************************)
\* g(c): the capacity a buffer of capacity c is grown to at least
StatedGrowth(c) ==
    IF c < 32 THEN 32 ELSE IF c < 8192 THEN 2 * c ELSE c + c \div 4

\* computing the grown capacity of a buffer of capacity c overflows size_t
GrowthOverflows(c) == StatedGrowth(c) >= 2 ^ SizeBits

\* the calls that append to sbuf
Appends == {"strncat", "strcat", "strappend_char", "string_concat"}

\* what archive_string_ensure(&sbuf, s) does when the request exceeds the
\* capacity, and how the capacity of sbuf moves in any call
EnsureGrows ==
    /\ (/\ last'.op = "string_ensure"
        /\ last'.s > sbuf.buffer_length
        /\ ~GrowthOverflows(sbuf.buffer_length))
          => /\ sbuf'.buffer_length = Max(last'.s, StatedGrowth(sbuf.buffer_length))
             /\ sbuf'.length = sbuf.length
             /\ sbuf'.s = sbuf.s
             /\ sbuf'.alloc
    /\ (/\ last'.op \in Appends \cup {"string_ensure"}
        /\ ~GrowthOverflows(sbuf.buffer_length))
          => /\ sbuf'.buffer_length >= sbuf.buffer_length
             /\ (sbuf'.buffer_length # sbuf.buffer_length /\ sbuf.buffer_length >= 32)
                   => sbuf'.buffer_length >= sbuf.buffer_length
                                               + sbuf.buffer_length \div 4
    /\ (/\ last'.op = "strappend_char"
        /\ sbuf.alloc
        /\ sbuf.length + 2 <= sbuf.buffer_length)
          => sbuf'.buffer_length = sbuf.buffer_length

C15_NoSilentWrap ==
    [][/\ (/\ last'.op = "string_ensure"
           /\ last'.s > sbuf.buffer_length
           /\ GrowthOverflows(sbuf.buffer_length))
          => ~last'.ret /\ sbuf' = archive_string_init
       /\ (last'.op = "wstring_ensure" /\ last'.s * SizeofWchar >= 2 ^ SizeBits)
          => ~last'.ret /\ wbuf' = archive_string_init
       /\ (last'.op = "string_ensure" /\ last'.ret)
          => sbuf'.alloc /\ sbuf'.buffer_length >= last'.s
       /\ (last'.op = "wstring_ensure" /\ last'.ret)
          => wbuf'.alloc /\ wbuf'.buffer_length >= last'.s * SizeofWchar]_vars

\* the elements of the array p before its first zero, all of p if it has none
RECURSIVE UpToZero(_)
UpToZero(p) ==
    IF p = <<>> \/ Head(p) = 0 THEN <<>> ELSE <<Head(p)>> \o UpToZero(Tail(p))

\* the elements an append call recorded in l is given to append: those before
\* the first zero for the calls that stop at a zero, all of them otherwise
Appended(l) == IF l.op \in {"strncat", "wstrncat", "strcat"} THEN UpToZero(l.p) ELSE l.p

\* what holds of a buffer of elements of elem bytes after an append to before
WellFormedAfter(before, after, elem, data) ==
    /\ after.alloc
    /\ after.length * elem < after.buffer_length
    /\ Cell(after.s, after.length) = 0
    /\ after.length = before.length + Len(data)
    /\ Text(after) = Text(before) \o data

\* C16: after every append (archive_strncat, archive_strcat,
\* archive_strappend_char, archive_string_concat, and archive_wstrncat on the
\* wide buffer) the data pointer is non-NULL, length is below the capacity,
\* the element at index length is zero, length has grown by exactly the
\* number of elements appended and the first length elements are the old
\* text followed by them; archive_string_free resets length and capacity to 0.
C16_AppendKeepsBufferWellFormed ==
    [][/\ last'.op \in Appends
          => WellFormedAfter(sbuf, sbuf', 1, Appended(last'))
       /\ last'.op = "wstrncat"
          => WellFormedAfter(wbuf, wbuf', SizeofWchar, Appended(last'))
       /\ last'.op = "string_free"
          => sbuf'.length = 0 /\ sbuf'.buffer_length = 0 /\ ~sbuf'.alloc]_vars

\* a string with a zero inside was concatenated to 33 elements and the
\* buffer was reallocated for it
C16_Witness ==
    /\ last.op = "string_concat"
    /\ last.p = <<100, 0, 101>>
    /\ sbuf.length = 36
    /\ sbuf.buffer_length = 68

\* the elements before..after-1 of a buffer are the first k elements of p
AppendedFirstK(before, after, p, k) ==
    /\ after.length = before.length + k
    /\ SubSeq(after.s, before.length + 1, after.length) = Take(p, k)
    /\ Take(after.s, before.length) = Take(before.s, before.length)
    /\ \A i \in 1..after.length : after.s[i] # Uninit

C20_EncodeInvertsDecode ==
    (last.op = "unicode_to_utf8" /\ last.n > 0)
    => Len(last.p) = last.n /\ last.p = Take(last.b, last.n)

\* the largest code point, decoded from four bytes and encoded again
C20_Witness ==
    /\ last.op = "unicode_to_utf8"
    /\ last.b = <<244, 143, 191, 191>>
    /\ last.n = 4
    /\ last.wc = UNICODE_MAX

\* C19: whenever some form of the multistring is valid, an
\* archive_mstring_get_mbs_l that returns 0 returns a pointer to text derived
\* from a valid form (the locale form itself when sc is NULL, the scratch
\* buffer aes_mbs_in_locale otherwise), and the only buffer the conversion
\* through sc writes is aes_mbs_in_locale: the wide and UTF-8 forms are left
\* as they were and no bit other than the locale form's is added.
C19_GetMbsLUsesAnyValidForm ==
    [][(last'.op = "get_mbs_l" /\ aes.aes_set # {} /\ last'.ret = 0)
          => /\ last'.p \in {"aes_mbs", "aes_mbs_in_locale"}
             /\ aes'.aes_utf8 = aes.aes_utf8
             /\ aes'.aes_wcs = aes.aes_wcs
             /\ aes'.aes_set \subseteq aes.aes_set \cup {"AES_SET_MBS"}
             /\ "AES_SET_MBS" \in aes.aes_set => aes'.aes_mbs = aes.aes_mbs]_vars

\* the input units a call in progress has still to consume
Left(cl) == IF cl.pc = "utf8" THEN cl.c.len ELSE cl.c.remaining

\* a pass that ended on a report of insufficient space from iconv and
\* enlarged the buffer
GrewAfterE2BIG ==
    /\ call.pc = "iconv"
    /\ call'.errno = "E2BIG"
    /\ call'.c.as.buffer_length > call.c.as.buffer_length
    /\ call'.c.avail > call.c.avail

Output == Drop(Text(sbuf), last.from)

\* the repair of the bytes s[o+1..] as stated: a well-formed sequence that is
\* no surrogate is copied, a high surrogate followed by a low surrogate
\* becomes the four bytes of the combined code point, anything else becomes
\* EF BF BD and makes the result -1
RECURSIVE StatedRepair(_, _)
StatedRepair(s, o) ==
    With([r \in {_utf8_to_unicode(Ptr(s), <<>>, o, Len(s) - o, 0)} |->
        IF r.cnt = 0 THEN [out |-> <<>>, ret |-> 0]
        ELSE IF r.cnt > 0 /\ ~(r.cnt = 3 /\ IS_SURROGATE_PAIR_LA(r.wc))
        THEN With([t \in {StatedRepair(s, o + r.cnt)} |->
                 [t EXCEPT !.out = SubSeq(s, o + 1, o + r.cnt) \o @]])
        ELSE With([r2 \in {IF r.cnt = 3 /\ IS_HIGH_SURROGATE_LA(r.wc)
                           THEN _utf8_to_unicode(Ptr(s), <<>>, o + 3,
                                                 Len(s) - o - 3, 0)
                           ELSE [cnt |-> 0, wc |-> 0]} |->
             IF r2.cnt = 3 /\ IS_LOW_SURROGATE_LA(r2.wc)
             THEN With([t \in {StatedRepair(s, o + 6)} |->
                      [t EXCEPT !.out = unicode_to_utf8(
                                   combine_surrogate_pair(r.wc, r2.wc)) \o @]])
             ELSE With([t \in {StatedRepair(s, o + (IF r.cnt < 0 THEN -r.cnt
                                                    ELSE r.cnt))} |->
                      [out |-> <<239, 191, 189>> \o t.out, ret |-> -1]])])])

\* C12: a call that goes through strncat_from_utf8_to_utf8 appends the stated
\* repair of its input: well-formed sequences unchanged, a CESU-8 surrogate
\* pair as one four-byte sequence, every other invalid sequence (an unpaired
\* high surrogate ED A0 80 among them) as EF BF BD, and it returns -1 exactly
\* when it replaced something.
C12_Utf8RepairAsStated ==
    (last.op = "strncat_in_locale" /\ last.route = "utf8")
    => With([t \in {StatedRepair(last.src, 0)} |->
           Output = t.out /\ last.ret = t.ret])

\* the bytes are valid text of the charset: every byte string is ISO-8859-1;
\* UTF-8 is valid when the stated repair has nothing to change
ValidUnder(charset, s) ==
    charset # "UTF-8" \/ StatedRepair(s, 0) = [out |-> s, ret |-> 0]

\* s holds a substitution mark: '?' or EF BF BD
RECURSIVE HasSubstitute(_)
HasSubstitute(s) ==
    /\ s # <<>>
    /\ \/ s[1] = 63
       \/ Len(s) >= 3 /\ SubSeq(s, 1, 3) = <<239, 191, 189>>
       \/ HasSubstitute(Tail(s))

\* C11: a call with an object whose two charsets are the same (sc->same)
\* appends the input byte for byte and returns 0 when the input is valid in
\* that charset; when it is not, the call returns nonzero and what it
\* appended carries '?' or U+FFFD.
C11_SameCharsetCopies ==
    (last.op = "strncat_in_locale" /\ last.sc # NULL /\ heap[last.sc].same)
    => IF ValidUnder(heap[last.sc].from_charset, last.src)
       THEN Output = last.src /\ last.ret = 0
       ELSE last.ret # 0 /\ HasSubstitute(Output)

\* the bytes are malformed in the charset they come from: UTF-8 in which
\* the stated repair replaces something by U+FFFD (a CESU-8 pair is
\* recombined, not replaced), or the byte 0x81 that CP1252 leaves undefined
Malformed(charset, s) ==
    \/ charset = "UTF-8" /\ StatedRepair(s, 0).ret # 0
    \/ charset = "CP1252" /\ \E i \in 1..Len(s) : s[i] = 129

\* C13: a call through a conversion object returns nonzero whenever its input
\* holds a malformed sequence, returns 0 only when what it appended holds no
\* '?' and no U+FFFD put in for a character, and when it returns nonzero the
\* string has still been produced.
C13_SubstitutionReported ==
    (last.op = "strncat_in_locale" /\ last.sc # NULL)
    => /\ Malformed(heap[last.sc].from_charset, last.src) => last.ret # 0
       /\ last.ret = 0 => ~HasSubstitute(Output)
       /\ last.ret # 0 => Output # <<>>

\* the length a lead byte announces by its bit pattern (0xxxxxxx, 110xxxxx,
\* 1110xxxx, 11110xxx), 0 for any other byte
AnnouncedLength(ch) ==
    IF ch < 128 THEN 1
    ELSE IF ch \div 32 = 6 THEN 2
    ELSE IF ch \div 16 = 14 THEN 3
    ELSE IF ch \div 8 = 30 THEN 4
    ELSE 0

\* the payload bits of the first k bytes of b read as one UTF-8 sequence
PayloadValue(b, k) ==
    IF k = 1 THEN b[1]
    ELSE IF k = 2 THEN (b[1] % 32) * 64 + (b[2] % 64)
    ELSE IF k = 3 THEN (b[1] % 16) * 4096 + (b[2] % 64) * 64 + (b[3] % 64)
    ELSE (b[1] % 8) * 262144 + (b[2] % 64) * 4096 + (b[3] % 64) * 64 + (b[4] % 64)

\* the smallest value a sequence of k bytes may encode
ShortestFor(k) == IF k = 1 THEN 0 ELSE IF k = 2 THEN 128 ELSE IF k = 3 THEN 2048 ELSE 65536

\* b starts with a well-formed, non-overlong sequence of a value <= 0x10FFFF
StartsWellFormed(b) ==
    /\ b # <<>>
    /\ AnnouncedLength(b[1]) \in 1..Len(b)
    /\ \A i \in 2..AnnouncedLength(b[1]) : b[i] \div 64 = 2
    /\ PayloadValue(b, AnnouncedLength(b[1])) >= ShortestFor(AnnouncedLength(b[1]))
    /\ PayloadValue(b, AnnouncedLength(b[1])) <= 1114111

\* C21: _utf8_to_unicode(&wc, b, n) returns 0 exactly when n = 0 or b[0] = 0;
\* for a well-formed, non-overlong sequence that fits in n and encodes a
\* value <= 0x10FFFF it returns the sequence's length and stores the value;
\* in every other case it stores U+FFFD and returns -k with 1 <= k <= n.
C21_DecodeOneSequence ==
    last.op = "_utf8_to_unicode"
    => /\ last.n = 0 <=> (last.b = <<>> \/ last.b[1] = 0)
       /\ (last.b # <<>> /\ last.b[1] # 0)
          => IF StartsWellFormed(last.b)
             THEN /\ last.n = AnnouncedLength(last.b[1])
                  /\ last.wc = PayloadValue(last.b, last.n)
             ELSE /\ last.wc = 65533
                  /\ last.n < 0
                  /\ -last.n <= Len(last.b)

\* an overlong three-byte sequence (E0 80 80) followed by 'A' was decoded:
\* three bytes consumed, U+FFFD stored
C21_Witness ==
    /\ last.op = "_utf8_to_unicode"
    /\ last.b = <<224, 128, 128, 65>>
    /\ last.n = -3
    /\ last.wc = UNICODE_R_CHAR

\* the first three bytes of b are the encoding of a value in lo..hi
ThreeBytesIn(b, lo, hi) ==
    /\ Len(b) >= 3
    /\ AnnouncedLength(b[1]) = 3
    /\ b[2] \div 64 = 2
    /\ b[3] \div 64 = 2
    /\ PayloadValue(b, 3) \in lo..hi

\* C22: utf8_to_unicode on the three-byte encoding of a surrogate returns -3
\* and stores U+FFFD; cesu8_to_unicode on a high surrogate followed by a
\* three-byte low surrogate returns 6 and stores the combined code point; on
\* a lone high or a lone low surrogate it stores U+FFFD and returns -k, k at
\* least 1 and at most the bytes given.
C22_SurrogateErrorsSignalled ==
    /\ (last.op = "utf8_to_unicode" /\ ThreeBytesIn(last.b, 55296, 57343))
       => last.n = -3 /\ last.wc = UNICODE_R_CHAR
    /\ (last.op = "cesu8_to_unicode" /\ ThreeBytesIn(last.b, 55296, 56319))
       => IF ThreeBytesIn(Drop(last.b, 3), 56320, 57343)
          THEN /\ last.n = 6
               /\ last.wc = combine_surrogate_pair(
                                PayloadValue(last.b, 3),
                                PayloadValue(Drop(last.b, 3), 3))
          ELSE /\ last.wc = UNICODE_R_CHAR
               /\ last.n < 0
               /\ -last.n <= Len(last.b)
    /\ (last.op = "cesu8_to_unicode" /\ ThreeBytesIn(last.b, 56320, 57343))
       => /\ last.wc = UNICODE_R_CHAR
          /\ last.n < 0
          /\ -last.n <= Len(last.b)

\* what the best-effort copy is stated to append for the bytes s: a byte
\* below 0x80 itself, any other byte as '?', or as EF BF BD when the
\* destination charset is UTF-8
RECURSIVE StatedBestEffort(_, _)
StatedBestEffort(s, to_utf8) ==
    IF s = <<>> THEN <<>>
    ELSE (IF Head(s) < 128 THEN <<Head(s)>>
          ELSE IF to_utf8 THEN <<239, 191, 189>>
          ELSE <<63>>) \o StatedBestEffort(Tail(s), to_utf8)

\* a call of best_effort_strncat_in_locale with an object it has no way to
\* convert with has come to its end
BestEffortEnded ==
    /\ last.op \in {"strncat_in_locale", "abort"}
    /\ last.route = "best_effort"

\* C23: best_effort_strncat_in_locale with an object whose charsets differ
\* and for which there is no iconv handle returns having appended, in input
\* order, each byte below 0x80 as it is and each other byte as '?' (EF BF BD
\* when the destination is UTF-8), and returns -1 exactly when it replaced a
\* byte, 0 otherwise.
C23_BestEffortCopy ==
    BestEffortEnded
    => /\ last.op = "strncat_in_locale"
       /\ Output = StatedBestEffort(last.src, "SCONV_TO_UTF8" \in heap[last.sc].flag)
       /\ last.ret = IF \E i \in 1..Len(last.src) : last.src[i] >= 128 THEN -1 ELSE 0

\* C26: best_effort_strncat_in_locale never stores at an index >= capacity:
\* in every pass the bytes written lie inside the buffer and the free space
\* the loop tracks (avail) is at most the real one, and on return
\* length < capacity.
C26_BestEffortStaysInBounds ==
    /\ call.pc = "best_effort"
       => /\ ~OutOfBounds(call.c.as, call.c.outp)
          /\ call.c.avail <= call.c.as.buffer_length - call.c.outp - 1
    /\ BestEffortEnded
       => /\ last.op = "strncat_in_locale"
          /\ sbuf.length < sbuf.buffer_length

\* what the loop over an iconv handle from charset fc to charset tc is stated
\* to produce for the bytes of s from position o + 1 on: a character that
\* converts gives its bytes in tc, any other sequence gives one substitution
\* and is passed by one byte
RECURSIVE StatedHostPath(_, _, _, _, _)
StatedHostPath(fc, tc, to_utf8, s, o) ==
    IF o >= Len(s) THEN <<>>
    ELSE
    With([d \in {HostDecode(fc, Ptr(s), <<>>, o, Len(s) - o)} |->
    With([b \in {IF d.k > 0 THEN HostEncode(tc, d.wc) ELSE <<>>} |->
        IF b # <<>> THEN b \o StatedHostPath(fc, tc, to_utf8, s, o + d.k)
        ELSE (IF to_utf8 THEN <<239, 191, 189>> ELSE <<63>>)
                 \o StatedHostPath(fc, tc, to_utf8, s, o + 1)])])

\* the bytes the loop over the iconv handle was given: the caller's, or
\* their normalization left in sc->utf8
LoopInput ==
    IF "SCONV_NORMALIZATION_C" \in heap[last.sc].flag
    THEN Text(heap[last.sc].utf8)
    ELSE last.src

\* C24: when a call that went through the iconv handle returns, the
\* destination holds what it held before followed by the converted text, in
\* which each illegal or incomplete sequence gave exactly one substitution
\* (EF BF BD for a UTF-8 destination, '?' otherwise) and was passed by one
\* byte; as->length counts all of it and as->s[as->length] is 0. This holds
\* for every input, one whose last byte was substituted included.
C24_HostPathOutputComplete ==
    (last.op = "strncat_in_locale" /\ last.route = "iconv")
    => /\ Text(sbuf)
            = last.before
              \o StatedHostPath(heap[last.sc].from_charset, heap[last.sc].to_charset,
                                "SCONV_TO_UTF8" \in heap[last.sc].flag, LoopInput, 0)
       /\ Cell(sbuf.s, sbuf.length) = 0

\* C28: in every state of the multistring a bit is in aes_set only if the
\* buffer of its form holds a text (the buffer exists and is terminated at
\* its length), and a getter that returns 0 and a non-NULL pointer returns
\* the pointer of the form it is the getter of, that form being in the mask.
C28_MaskMatchesBuffers ==
    /\ \A bit \in aes.aes_set :
          /\ aes[FormOf(bit)].alloc
          /\ Cell(aes[FormOf(bit)].s, aes[FormOf(bit)].length) = 0
    /\ (last.op \in Getters /\ last.ret = 0 /\ last.p # "NULL")
       => /\ last.p = FormOf(BitOf(last.op))
          /\ BitOf(last.op) \in aes.aes_set

\* the wide characters of the text s of charset cs from offset o on, read
\* character by character to the end of s; -1 stands for a sequence that is
\* no character of cs
RECURSIVE WideOf(_, _, _)
WideOf(cs, s, o) ==
    IF o >= Len(s) THEN <<>>
    ELSE With([d \in {HostDecode(cs, Ptr(s), <<>>, o, Len(s) - o)} |->
             IF d.k <= 0 THEN <<-1>> ELSE <<d.wc>> \o WideOf(cs, s, o + d.k)])

\* C29: when archive_mstring_update_utf8 has returned 0 for a non-NULL
\* argument, the wide form is the conversion of the whole locale form, all
\* aes_mbs.length bytes of it.
C29_WideFormOfWholeLocaleForm ==
    (last.op = "update_utf8" /\ ~last.null /\ last.ret = 0)
       => Text(aes.aes_wcs) = WideOf(codeset, Text(aes.aes_mbs), 0)

\* the calls that write a multistring from a source argument
Writers == {"copy_mbs", "copy_wcs", "copy_mbs_len_l", "update_utf8"}

\* C30: a write operation (copy_mbs, copy_mbs_len, copy_wcs, copy_wcs_len,
\* copy_mbs_len_l, update_utf8) given a NULL source returns 0 and leaves
\* aes_set empty, and no such call reads through the NULL pointer.
C30_NullSourceClears ==
    /\ (last.op \in Writers /\ last.null) => (last.ret = 0 /\ aes.aes_set = {})
    /\ last.op = "SIGSEGV" => ~last.null

\* two bytes per byte of s, in order: 00 xx for a byte below 0x80, FF FD for
\* any other
RECURSIVE StatedToUtf16be(_)
StatedToUtf16be(s) ==
    IF s = <<>> THEN <<>>
    ELSE (IF Head(s) < 128 THEN <<0, Head(s)>> ELSE <<255, 253>>)
         \o StatedToUtf16be(Tail(s))

\* one byte per 16-bit unit of s, in order: the unit when it is below 0x80,
\* '?' otherwise
RECURSIVE StatedFromUtf16be(_)
StatedFromUtf16be(s) ==
    IF Len(s) < 2 THEN <<>>
    ELSE <<IF s[1] * 256 + s[2] < 128 THEN s[2] ELSE 63>>
         \o StatedFromUtf16be(Drop(s, 2))

\* C25: without iconv and in a locale other than UTF-8, strncpy_to_utf16be
\* leaves 00 xx for each byte below 0x80 and FF FD for each other byte, in
\* input order, then two zero bytes, with length twice the input length, and
\* returns -1 exactly when some byte was 0x80 or above; strncpy_from_utf16be
\* leaves one byte per unit (the unit if below 0x80, '?' otherwise) with the
\* same rule for the value returned.
C25_Utf16beByteLoops ==
    /\ (~have_iconv /\ last.op = "strncpy_to_utf16be")
       => /\ sbuf.length = 2 * Len(last.src)
          /\ Text(sbuf) = StatedToUtf16be(last.src)
          /\ Cell(sbuf.s, sbuf.length) = 0
          /\ Cell(sbuf.s, sbuf.length + 1) = 0
          /\ last.ret = -1 <=> \E i \in 1..Len(last.src) : last.src[i] >= 128
          /\ last.ret \in {0, -1}
    /\ (~have_iconv /\ last.op = "strncpy_from_utf16be")
       => /\ Text(sbuf) = StatedFromUtf16be(last.src)
          /\ last.ret = -1 <=> \E i \in 1..(Len(last.src) \div 2) :
                                  last.src[2 * i - 1] * 256 + last.src[2 * i] >= 128
          /\ last.ret \in {0, -1}

\* C27: in the loops around iconv() of strncpy_from_utf16be and
\* strncpy_to_utf16be the free space counted in avail is never more than
\* what the buffer has left before its last byte (so avail never wraps below
\* zero: a '?' or FF FD is stored only while avail covers it), and outp
\* never passes as->s + buffer_length - 1.
C27_IconvLoopsStayInBounds ==
    call.pc \in {"to_utf16be", "from_utf16be"}
       => /\ call.c.outp + call.c.avail <= call.c.as.buffer_length - 1
          /\ call.c.outp <= call.c.as.buffer_length - 1

====
